---- MODULE Spec2Model ----
(***************************************************************************)
(* Event indexing engine of evm-tvl-aggregator (internal/indexer):         *)
(* the decoder registry and dispatch, the historical batch scanner with    *)
(* its worker pool, the realtime listener, Stop, and the two Storage       *)
(* implementations of internal/indexer/storage.go.                         *)
(*                                                                         *)
(* Block numbers, batch sizes and counters are uint64 in the source.  All  *)
(* values of the model stay far below 2^64, so no addition wraps; the two  *)
(* subtractions of the source are guarded by a comparison in the source    *)
(* and are modelled with that guard.                                       *)
(***************************************************************************)
EXTENDS Integers, Sequences, FiniteSets, TLC

VARIABLES
    \* ---- Indexer (indexer.go:438-445) and its configuration
    processors,      \* Indexer.processors: map protocol name -> EventProcessor
    config,          \* Indexer.config
    \* ---- Storage (storage.go)
    storageKind,     \* "postgres" or "memory": the Storage the indexer is wired to
    events,          \* events table / MemoryStorage.events[chain], in insertion order
    blocks,          \* indexed_blocks rows / MemoryStorage.blocks[chain] keys
    lastBlocks,      \* MemoryStorage.lastBlocks[chain]
    \* ---- chain connection
    head,            \* the block number client.GetBlockNumber returns
    faults,          \* how many more calls of this run the environment may fail
    \* ---- one indexChain task (Start -> indexChain -> indexHistoricalEvents)
    run,             \* number of the current Start() invocation
    ctxDone,         \* the parent context has been cancelled
    workerCtxDone,   \* workerCtx (indexer.go:568) has been cancelled
    ipc,             \* position of the indexChain goroutine
    startBlock,      \* result of getStartBlock
    fromCheckpoint,  \* getStartBlock returned lastIndexed + 1
    fromBlock,       \* loop variable of indexHistoricalEvents
    currentBlock,    \* head minus confirmations, as indexHistoricalEvents computes it
    workerChan,      \* buffered job channel: indexes into windows
    chanClosed,      \* close(workerChan) has run
    windows,         \* every blockRange sent on workerChan in this run, with its progress
    wpc,             \* position of each worker goroutine
    wjob,            \* the window each worker is processing (index into windows)
    doneWoken,       \* the producer, parked in its select, has been woken by ctx.Done()
    \* ---- realtime listener (indexer.go:705-744) and Stop (indexer.go:746-750)
    wsAvailable,     \* client.IsWebSocketAvailable()
    lpc,             \* position of the listenToRealtimeEvents goroutine
    logsCh,          \* logs the subscription holds for the listener, oldest first
    rtSaved,         \* keys of the events the listener has had SaveEvents store
    rtFailed,        \* keys of the events the listener's SaveEvents call failed for
    stopPc,          \* position of the caller of Stop()
    \* ---- Start with several chains (indexer.go:487-526)
    chainPc,         \* position of the indexChain goroutine of each chain
    startPc,         \* position of Start(): "idle", "waiting", "returned"
    startErr,        \* what Start() returned: "none" (not yet), "nil", "error"
    \* ---- history of the observable calls
    prevFailed,      \* from-blocks of the windows whose processBatch failed in the previous run
    lateSave,        \* a SaveBlock with a number below the stored checkpoint has happened
    regOrder,        \* the processors in the order RegisterProcessor was called
    sigCalls,        \* results of the latest two getAllEventSignatures calls in a row
    lastDispatch,    \* the latest processLog call: log, decoders invoked, result
    lastSave,        \* the last SaveEvents call issued on the storage directly
    lastGet,         \* the last GetEvents call and what it returned
    lastDecode,      \* the last processSwap call: log, result, data map
    lastStart        \* the last getStartBlock call looked at on its own

vars == << processors, config, storageKind, events, blocks, lastBlocks, head,
           faults, run, ctxDone, workerCtxDone, ipc, startBlock, fromCheckpoint,
           fromBlock, currentBlock, workerChan, chanClosed, windows, wpc, wjob,
           wsAvailable, lpc, logsCh, rtSaved, rtFailed, stopPc, doneWoken,
           chainPc, startPc, startErr,
           prevFailed, lateSave, regOrder, sigCalls, lastDispatch, lastSave,
           lastGet, lastDecode, lastStart >>

registryVars == << processors, regOrder, sigCalls, lastDispatch >>
storageVars == << storageKind, events, blocks, lastBlocks >>
storeCallVars == << lastSave, lastGet >>
pureCallVars == << lastDecode, lastStart >>
listenerVars == << wsAvailable, lpc, logsCh, rtSaved, rtFailed >>
startVars == << chainPc, startPc, startErr >>
stopVars == << stopPc >>
runVars == << run, ctxDone, workerCtxDone, ipc, startBlock, fromCheckpoint, fromBlock,
              currentBlock, workerChan, chanClosed, windows, wpc, wjob, doneWoken,
              prevFailed, lateSave >>

----------------------------------------------------------------------------
(* Bounds of the model *)

MaxHead == 3
MaxBatch == 3
MaxWorkers == 2
MaxConfirmations == 1
MaxRuns == 2
MaxProcessors == 2
MaxStored == 4
MaxFaults == 1
MaxChains == 3
MaxWindows == 4
UintWidth == 16

(* Program constants *)

DefaultStartFrom == 1000
SwapDataLen == 128
PairDataLen == 64
WordLen == 32
AddressLen == 20

ChainName == "ethereum"

----------------------------------------------------------------------------
(* Sequences helpers *)

Range(s) == { s[i] : i \in DOMAIN s }

\* all orders in which the elements of a finite set can be visited
Perms(S) ==
    { s \in [1..Cardinality(S) -> S] :
        \A i, j \in 1..Cardinality(S) : i # j => s[i] # s[j] }

----------------------------------------------------------------------------
(* Decoders (processors.go).  A signature hash is written as the name of   *)
(* the event it is the hash of; distinct names are distinct hashes.        *)

NoEvent == [Chain |-> "", BlockNumber |-> 0, TransactionHash |-> 0, LogIndex |-> 0,
            Protocol |-> "", EventName |-> ""]

\* the Event a Process method fills in from the log (Chain is set by processLog)
NewEvent(log, protocol, name) ==
    [Chain |-> "", BlockNumber |-> log.BlockNumber, TransactionHash |-> log.TxHash,
     LogIndex |-> log.Index, Protocol |-> protocol, EventName |-> name]

ProcessError == [kind |-> "error", event |-> NoEvent]
ProcessNil == [kind |-> "nil", event |-> NoEvent]
ProcessPanic == [kind |-> "panic", event |-> NoEvent]
ProcessEvent(e) == [kind |-> "event", event |-> e]

UniswapV2Signatures == << "Swap", "Mint", "Burn", "Sync" >>
AaveV3Signatures == << "Supply", "Withdraw", "Borrow", "Repay" >>
GenericERC20Signatures == << "Transfer" >>

GetEventSignatures(p) ==
    CASE p.kind = "uniswap" -> UniswapV2Signatures
      [] p.kind = "aave" -> AaveV3Signatures
      [] OTHER -> GenericERC20Signatures

GetProtocolName(p) == p.name

\* processSwap / processMint / processBurn / processSync: the length check of
\* the payload comes first, then log.Topics[k] is indexed without a check
UniswapDecode(p, log, name, minData, minTopics) ==
    IF log.DataLen < minData THEN ProcessError
    ELSE IF Len(log.Topics) < minTopics THEN ProcessPanic
    ELSE ProcessEvent(NewEvent(log, p.name, name))

UniswapV2Process(p, log) ==
    IF Len(log.Topics) = 0 THEN ProcessError
    ELSE CASE log.Topics[1] = "Swap" -> UniswapDecode(p, log, "Swap", SwapDataLen, 3)
           [] log.Topics[1] = "Mint" -> UniswapDecode(p, log, "Mint", PairDataLen, 2)
           [] log.Topics[1] = "Burn" -> UniswapDecode(p, log, "Burn", PairDataLen, 3)
           [] log.Topics[1] = "Sync" -> UniswapDecode(p, log, "Sync", PairDataLen, 1)
           [] OTHER -> ProcessError

\* a 32-byte word whose last bytes are tail and whose other bytes are zero
PadWord(tail) ==
    [i \in 1..WordLen |->
        IF i <= WordLen - Len(tail) THEN 0 ELSE tail[i - (WordLen - Len(tail))]]

\* log.Data[lo:hi]
Slice(data, lo, hi) == SubSeq(data, lo + 1, hi)

RECURSIVE SetBytesFrom(_, _, _)
SetBytesFrom(bytes, k, acc) ==
    IF k > Len(bytes) THEN acc
    ELSE SetBytesFrom(bytes, k + 1, acc * 256 + bytes[k])

\* new(big.Int).SetBytes(buf): buf as a big-endian unsigned integer
SetBytes(bytes) == SetBytesFrom(bytes, 1, 0)

RECURSIVE DecimalString_LeastFirst(_)
DecimalString_LeastFirst(n) ==
    IF n < 10 THEN << n >> ELSE << n % 10 >> \o DecimalString_LeastFirst(n \div 10)

\* (*big.Int).String(): the decimal digits, most significant first
RECURSIVE DecimalString(_)
DecimalString(n) ==
    IF n < 10 THEN << n >> ELSE Append(DecimalString(n \div 10), n % 10)

\* common.BytesToAddress(topic.Bytes()): the last 20 of the 32 bytes
BytesToAddress(bytes) == SubSeq(bytes, Len(bytes) - AddressLen + 1, Len(bytes))

\* event.Data of processSwap
SwapData(log) ==
    [sender |-> BytesToAddress(log.Topics[2]),
     to |-> BytesToAddress(log.Topics[3]),
     amount0_in |-> DecimalString(SetBytes(Slice(log.Data, 0, 32))),
     amount1_in |-> DecimalString(SetBytes(Slice(log.Data, 32, 64))),
     amount0_out |-> DecimalString(SetBytes(Slice(log.Data, 64, 96))),
     amount1_out |-> DecimalString(SetBytes(Slice(log.Data, 96, 128)))]

NoData == << >>

\* processSwap on a log that carries its payload and its topics as bytes
processSwap(p, log) ==
    LET r == UniswapDecode(p, log, "Swap", SwapDataLen, 3)
    IN [kind |-> r.kind, event |-> r.event,
        data |-> IF r.kind = "event" THEN SwapData(log) ELSE NoData]

NoDecode == [called |-> FALSE]

\* processSupply / processWithdraw / processBorrow / processRepay: the topic
\* count is checked, then log.Data[0:32] is sliced without a check
AaveDecode(p, log, name) ==
    IF Len(log.Topics) < 4 THEN ProcessError
    ELSE IF log.DataLen < WordLen THEN ProcessPanic
    ELSE ProcessEvent(NewEvent(log, p.name, name))

AaveV3Process(p, log) ==
    IF Len(log.Topics) = 0 THEN ProcessError
    ELSE IF log.Topics[1] \in Range(AaveV3Signatures)
         THEN AaveDecode(p, log, log.Topics[1])
         ELSE ProcessError

GenericERC20Process(p, log) ==
    IF log.Address \notin p.tokens THEN ProcessNil
    ELSE IF Len(log.Topics) < 3 THEN ProcessError
    ELSE ProcessEvent(NewEvent(log, p.name, "Transfer"))

Process(p, log) ==
    CASE p.kind = "uniswap" -> UniswapV2Process(p, log)
      [] p.kind = "aave" -> AaveV3Process(p, log)
      [] OTHER -> GenericERC20Process(p, log)

NewUniswapV2Processor == [name |-> "uniswap-v2", kind |-> "uniswap", tokens |-> {}]
NewAaveV3Processor == [name |-> "aave-v3", kind |-> "aave", tokens |-> {}]
NewGenericERC20Processor(name, tokens) == [name |-> name, kind |-> "erc20", tokens |-> tokens]

----------------------------------------------------------------------------
(* Registry and dispatch (indexer.go:478-485, 662-703).  The registry is a *)
(* Go map keyed by protocol name; `range` over a map visits its entries in *)
(* an unspecified order, so every operator that ranges over it takes the   *)
(* order as a parameter and its callers choose it with \E.                 *)

\* idx.processors[name] = processor
RegisterProcessorMap(procs, p) ==
    [n \in DOMAIN procs \cup {GetProtocolName(p)} |->
        IF n = GetProtocolName(p) THEN p ELSE procs[n]]

\* the (processor, signature) pairs in the order the two nested loops of
\* processLog visit them, for one iteration order of the map
RECURSIVE VisitPairs(_, _, _)
VisitPairs(procs, order, k) ==
    IF k > Len(order) THEN << >>
    ELSE LET p == procs[order[k]]
             sigs == GetEventSignatures(p)
         IN [i \in 1..Len(sigs) |-> << order[k], sigs[i] >>] \o VisitPairs(procs, order, k + 1)

TopicMatches_AnyLog(log, sig) == TRUE

\* if len(log.Topics) > 0 && log.Topics[0] == sig
TopicMatches(log, sig) == Len(log.Topics) > 0 /\ log.Topics[1] = sig

\* the loops of processLog from pair i on; invoked collects the processors
\* whose Process method has been called
RECURSIVE ProcessLogFrom(_, _, _, _, _, _)
ProcessLogFrom(procs, pairs, i, chain, log, invoked) ==
    IF i > Len(pairs)
    THEN [result |-> "nil", event |-> NoEvent, invoked |-> invoked]
    ELSE LET p == procs[pairs[i][1]]
             sig == pairs[i][2]
         IN IF TopicMatches(log, sig)
            THEN LET r == Process(p, log)
                     inv == Append(invoked, p)
                 IN CASE r.kind = "panic" ->
                           [result |-> "panic", event |-> NoEvent, invoked |-> inv]
                      [] r.kind = "error" ->
                           [result |-> "error", event |-> NoEvent, invoked |-> inv]
                      [] r.kind = "event" ->
                           [result |-> "event",
                            event |-> [r.event EXCEPT !.Chain = chain],
                            invoked |-> inv]
                      [] OTHER -> ProcessLogFrom(procs, pairs, i + 1, chain, log, inv)
            ELSE ProcessLogFrom(procs, pairs, i + 1, chain, log, invoked)

processLog(procs, order, chain, log) ==
    ProcessLogFrom(procs, VisitPairs(procs, order, 1), 1, chain, log, << >>)

\* the keys of sigMap in getAllEventSignatures
SignatureSet(procs) ==
    UNION { Range(GetEventSignatures(procs[n])) : n \in DOMAIN procs }

\* the slices getAllEventSignatures can return: the keys of sigMap in the
\* order `for sig := range sigMap` visits them
getAllEventSignatures(procs) == Perms(SignatureSet(procs))

----------------------------------------------------------------------------
(* Storage (storage.go).  events is the events table, or                   *)
(* MemoryStorage.events[chain], in insertion order; blocks is the set of   *)
(* block numbers of indexed_blocks, or the keys of                         *)
(* MemoryStorage.blocks[chain].                                            *)

StorageKinds == { "postgres", "memory" }

\* UNIQUE(chain, transaction_hash, log_index)
EventKey(e) == << e.Chain, e.TransactionHash, e.LogIndex >>

\* INSERT ... ON CONFLICT (chain, transaction_hash, log_index) DO NOTHING, once
\* per event of the batch, inside one transaction
RECURSIVE PostgresSaveEvents(_, _)
PostgresSaveEvents(stored, batch) ==
    IF batch = << >> THEN stored
    ELSE IF \E i \in DOMAIN stored : EventKey(stored[i]) = EventKey(Head(batch))
         THEN PostgresSaveEvents(stored, Tail(batch))
         ELSE PostgresSaveEvents(Append(stored, Head(batch)), Tail(batch))

\* s.events[event.Chain] = append(s.events[event.Chain], event), once per event
MemorySaveEvents(stored, batch) == stored \o batch

SaveEvents(kind, stored, batch) ==
    IF kind = "postgres" THEN PostgresSaveEvents(stored, batch)
    ELSE MemorySaveEvents(stored, batch)

NoFailure == [at |-> "none", k |-> 0]

\* where PostgresStorage.SaveEvents can return an error: BeginTx,
\* PrepareContext, json.Marshal or ExecContext of the k-th event, Commit
FailPoints(batch) ==
    { [at |-> a, k |-> 0] : a \in { "begin", "prepare", "commit" } } \cup
    { [at |-> a, k |-> k] : a \in { "marshal", "exec" }, k \in 1..Len(batch) }

Rollback_KeepInserted(stored, inserted) == inserted

\* defer tx.Rollback(): the table after a return without a successful
\* Commit; inserted is the table as the transaction saw it
Rollback(stored, inserted) == stored

\* PostgresStorage.SaveEvents with the transaction spelled out: fail is
\* the point where an error comes back, NoFailure when none does
PostgresSaveEventsTx(stored, batch, fail) ==
    IF batch = << >> THEN [err |-> FALSE, stored |-> stored]
    ELSE IF fail.at = "begin" THEN [err |-> TRUE, stored |-> stored]
    ELSE IF fail.at = "prepare" THEN [err |-> TRUE, stored |-> Rollback(stored, stored)]
    ELSE IF fail.at \in { "marshal", "exec" }
         THEN [err |-> TRUE,
               stored |-> Rollback(stored,
                                   PostgresSaveEvents(stored, SubSeq(batch, 1, fail.k - 1)))]
    ELSE IF fail.at = "commit"
         THEN [err |-> TRUE,
               stored |-> Rollback(stored, PostgresSaveEvents(stored, batch))]
    ELSE [err |-> FALSE, stored |-> PostgresSaveEvents(stored, batch)]

\* WHERE chain = $1 AND block_number >= $2 AND block_number <= $3, and the
\* test of the loop of MemoryStorage.GetEvents
InRange(e, chain, from, to) ==
    e.Chain = chain /\ e.BlockNumber >= from /\ e.BlockNumber <= to

\* ORDER BY block_number, log_index
BlockLogOrder(e, f) ==
    \/ e.BlockNumber < f.BlockNumber
    \/ e.BlockNumber = f.BlockNumber /\ e.LogIndex < f.LogIndex

PostgresGetEvents(stored, chain, from, to) ==
    SortSeq(SelectSeq(stored, LAMBDA e : InRange(e, chain, from, to)), BlockLogOrder)

\* the events of s.events[chain] in the range, in the order they were appended
MemoryGetEvents(stored, chain, from, to) ==
    SelectSeq(stored, LAMBDA e : InRange(e, chain, from, to))

GetEvents(kind, stored, chain, from, to) ==
    IF kind = "postgres" THEN PostgresGetEvents(stored, chain, from, to)
    ELSE MemoryGetEvents(stored, chain, from, to)

\* INSERT ... ON CONFLICT (chain, block_number) DO UPDATE SET indexed_at, and
\* s.blocks[block.Chain][block.Number] = block
SaveBlockRows(blks, number) == blks \cup { number }

MemorySaveBlockLast_Unguarded(last, number) == number

\* if block.Number > s.lastBlocks[block.Chain] { s.lastBlocks[...] = block.Number }
MemorySaveBlockLast(last, number) == IF number > last THEN number ELSE last

\* SELECT block_number ... ORDER BY block_number DESC LIMIT 1; sql.ErrNoRows -> 0
PostgresGetLastIndexedBlock(blks) ==
    IF blks = {} THEN 0 ELSE CHOOSE n \in blks : \A m \in blks : m <= n

MemoryGetLastIndexedBlock(last) == last

GetLastIndexedBlock(kind, blks, last) ==
    IF kind = "postgres" THEN PostgresGetLastIndexedBlock(blks)
    ELSE MemoryGetLastIndexedBlock(last)

\* How a storage call can end.  database/sql returns ctx.Err() from every
\* ...Context call made with a cancelled context; otherwise the call can fail
\* when the database does.  MemoryStorage ignores ctx and always returns nil.
StorageOutcomes(kind, done, mayFail) ==
    IF kind = "memory" THEN { "ok" }
    ELSE IF done THEN { "error" }
    ELSE IF mayFail THEN { "ok", "error" }
    ELSE { "ok" }

\* How a call on the chain connection can end (GetBlockNumber, GetLogs): the
\* RPC client returns the context's error when ctx is cancelled.
ClientOutcomes(done, mayFail) ==
    IF done THEN { "error" }
    ELSE IF mayFail THEN { "ok", "error" }
    ELSE { "ok" }

----------------------------------------------------------------------------
(* The chain: what eth_getLogs returns for the registry of cmd/indexer.    *)
(* Every third block carries two well-formed Swap logs, the block after it *)
(* nothing, the next a Swap log with a truncated payload.                  *)

LogAt(block, index, topics, dataLen) ==
    [BlockNumber |-> block, TxHash |-> block, Index |-> index, Address |-> "pair",
     Topics |-> topics, DataLen |-> dataLen]

Log(block, topics, dataLen) == LogAt(block, 0, topics, dataLen)

LogsInBlock(b) ==
    CASE b % 3 = 0 -> << Log(b, << "Swap", "sender", "to" >>, SwapDataLen),
                         LogAt(b, 1, << "Swap", "sender", "to" >>, SwapDataLen) >>
      [] b % 3 = 1 -> << >>
      [] OTHER -> << Log(b, << "Swap", "sender", "to" >>, PairDataLen) >>

\* client.GetLogs with FromBlock, ToBlock and the signatures as topic filter
RECURSIVE GetLogs(_, _, _)
GetLogs(from, to, sigs) ==
    IF from > to THEN << >>
    ELSE SelectSeq(LogsInBlock(from), LAMBDA l : l.Topics[1] \in sigs)
            \o GetLogs(from + 1, to, sigs)

RECURSIVE DecodeLogs_StopAtError(_, _, _, _)
DecodeLogs_StopAtError(procs, order, chain, logs) ==
    IF logs = << >> THEN << >>
    ELSE LET r == processLog(procs, order, chain, Head(logs))
         IN IF r.result = "event"
            THEN << r.event >> \o DecodeLogs_StopAtError(procs, order, chain, Tail(logs))
            ELSE << >>

\* the loop of processBatch over the fetched logs (indexer.go:632-638)
RECURSIVE DecodeLogs(_, _, _, _)
DecodeLogs(procs, order, chain, logs) ==
    IF logs = << >> THEN << >>
    ELSE LET r == processLog(procs, order, chain, Head(logs))
             rest == DecodeLogs(procs, order, chain, Tail(logs))
         IN IF r.result = "event" THEN << r.event >> \o rest ELSE rest

\* the registrations of cmd/indexer/main.go
\* processors: make(map[string]EventProcessor) of NewIndexer
NoProcessors == [n \in {} |-> NewUniswapV2Processor]

MainProcessors ==
    RegisterProcessorMap(
        RegisterProcessorMap(NoProcessors, NewUniswapV2Processor),
        NewAaveV3Processor)

NoSignatures_Never(procs) == FALSE

\* len(signatures) == 0 of processBatch and listenToRealtimeEvents
NoSignatures(procs) == SignatureSet(procs) = {}

----------------------------------------------------------------------------
(* The batch scanner (indexer.go:505-660)                                  *)

Workers == 1..config.WorkerCount

\* uint64 arithmetic, at the width UintWidth: results wrap around
UintModulus == 2 ^ UintWidth

UintAdd(a, b) == (a + b) % UintModulus

UintSub(a, b) == (a - b + UintModulus) % UintModulus

\* startFrom of getStartBlock: StartFromBlock, or 1000 when it is 0
StartFrom(cfg) == IF cfg.StartFromBlock = 0 THEN DefaultStartFrom ELSE cfg.StartFromBlock

DefaultStartBlock_Unguarded(current, cfg) == UintSub(current, StartFrom(cfg))

\* the tail of getStartBlock, when no checkpoint is used
DefaultStartBlock(current, cfg) ==
    IF current > StartFrom(cfg) THEN UintSub(current, StartFrom(cfg)) ELSE 0

\* "Account for confirmations" in indexHistoricalEvents
EffectiveEnd(current, cfg) ==
    IF current > cfg.BlockConfirmations THEN current - cfg.BlockConfirmations ELSE current

\* the loop condition of "Send work to workers"
MoreWindows(from, current) == from < current

LoopEnd_Polling(current, chainHead) == chainHead

\* the end the producer loop compares and clips with: the local currentBlock
\* read before the loop, not the head of the chain at the time
LoopEnd(current, chainHead) == current

\* toBlock of the loop body, clipped to currentBlock
ToBlock(from, batchSize, current) ==
    LET toBlock == UintSub(UintAdd(from, batchSize), 1)
    IN IF toBlock > current THEN current ELSE toBlock

NextFromBlock_Overlap(to) == to

\* fromBlock = toBlock + 1
NextFromBlock(to) == UintAdd(to, 1)

NewWindow(from, to) ==
    [from |-> from, to |-> to, events |-> << >>, fetched |-> FALSE, saved |-> FALSE,
     marked |-> FALSE, result |-> "pending", failedAt |-> ""]

AfterGetLogs_AlwaysSave(outcome, nEvents) ==
    IF outcome = "error" THEN "return" ELSE "save"

\* where processBatch goes after client.GetLogs and the decode loop
AfterGetLogs(outcome, nEvents) ==
    IF outcome = "error" THEN "return"
    ELSE IF nEvents > 0 THEN "save" ELSE "block"

AfterSaveEvents_IgnoreError(outcome) == "block"

\* where processBatch goes after storage.SaveEvents
AfterSaveEvents(outcome) == IF outcome = "error" THEN "return" ELSE "block"

WorkerAfterBatch_ReturnOnError(failed) == IF failed THEN "exited" ELSE "idle"

\* worker, after processBatch has returned: an error is printed, and with or
\* without one the loop goes on to receive the next job
WorkerAfterBatch(failed) == "idle"

\* ctx.Err() # nil for the context the workers run under, a child of ctx
WorkerCtxDone == ctxDone \/ workerCtxDone

Checkpoint == GetLastIndexedBlock(storageKind, blocks, lastBlocks)

\* a failure of the environment: an error returned although ctx is live
Injected(outcome, done) == IF outcome = "error" /\ ~done THEN 1 ELSE 0

ResumeBlock_SameBlock(lastIndexed) == lastIndexed

\* getStartBlock with a stored checkpoint: return lastIndexed + 1, nil
ResumeBlock(lastIndexed) == lastIndexed + 1

\* indexChain after getStartBlock: `go idx.listenToRealtimeEvents(...)` when a
\* start block was resolved and the client has a WebSocket connection
SpawnListener_Always(resolved) == IF resolved THEN "subscribe" ELSE lpc

SpawnListener(resolved) == IF resolved /\ wsAvailable THEN "subscribe" ELSE lpc

NoStart == [called |-> FALSE]

\* getStartBlock: so is the outcome of GetLastIndexedBlock and lastIndexed
\* its value, co the outcome of GetBlockNumber and current its value
getStartBlock(so, lastIndexed, co, current, cfg) ==
    IF so = "ok" /\ lastIndexed > 0
    THEN [err |-> FALSE, block |-> ResumeBlock(lastIndexed), resumed |-> TRUE]
    ELSE IF co = "ok"
         THEN [err |-> FALSE, block |-> DefaultStartBlock(current, cfg), resumed |-> FALSE]
         ELSE [err |-> TRUE, block |-> 0, resumed |-> FALSE]

\* indexChain up to the call of indexHistoricalEvents: getStartBlock, then
\* the start of the listener
GetStartBlock ==
    /\ ipc = "getStart"
    /\ \E so \in StorageOutcomes(storageKind, ctxDone, faults > 0) :
          IF so = "ok" /\ Checkpoint > 0
          THEN /\ startBlock' = getStartBlock(so, Checkpoint, "ok", head, config).block
               /\ fromCheckpoint' = TRUE
               /\ ipc' = "getHead"
               /\ UNCHANGED faults
          ELSE \E co \in ClientOutcomes(ctxDone, faults - Injected(so, ctxDone) > 0) :
                  LET r == getStartBlock(so, Checkpoint, co, head, config)
                  IN /\ faults' = faults - Injected(so, ctxDone) - Injected(co, ctxDone)
                     /\ IF ~r.err
                        THEN /\ startBlock' = r.block
                             /\ fromCheckpoint' = r.resumed
                             /\ ipc' = "getHead"
                        ELSE /\ ipc' = "error"
                             /\ UNCHANGED << startBlock, fromCheckpoint >>
    /\ lpc' = SpawnListener(ipc' = "getHead")
    /\ UNCHANGED << startVars, pureCallVars, doneWoken, wsAvailable, logsCh, rtSaved, rtFailed, stopVars, registryVars, storageVars,
                    storeCallVars, config, head, run,
                    ctxDone, workerCtxDone, fromBlock, currentBlock, workerChan,
                    chanClosed, windows, wpc, wjob, prevFailed, lateSave >>

\* indexHistoricalEvents up to the start of the workers (indexer.go:554-574)
StartHistorical ==
    /\ ipc = "getHead"
    /\ \E co \in ClientOutcomes(ctxDone, faults > 0) :
          /\ faults' = faults - Injected(co, ctxDone)
          /\ IF co = "ok"
             THEN /\ currentBlock' = EffectiveEnd(head, config)
                  /\ fromBlock' = startBlock
                  /\ workerChan' = << >>
                  /\ chanClosed' = FALSE
                  /\ wpc' = [w \in Workers |-> "idle"]
                  /\ ipc' = "produce"
             ELSE /\ ipc' = "error"
                  /\ UNCHANGED << currentBlock, fromBlock, workerChan, chanClosed, wpc >>
    /\ UNCHANGED << startVars, pureCallVars, doneWoken, listenerVars, stopVars, registryVars, storageVars, storeCallVars, config, head, run,
                    ctxDone, workerCtxDone, startBlock, fromCheckpoint, windows, wjob,
                    prevFailed, lateSave >>

ChanCapacity_OneMore(cfg) == cfg.WorkerCount + 1

\* workerChan := make(chan blockRange, idx.config.WorkerCount)
ChanCapacity(cfg) == cfg.WorkerCount

DoneCaseReady_Never(done) == FALSE

\* case <-ctx.Done() of the producer's select can be taken
DoneCaseReady(done) == done

\* Whether cancel() finds the producer parked in its select.  A producer
\* that reached the select while the channel was full is parked on both
\* cases; closing ctx.Done() wakes it with that case chosen, and a slot freed
\* later is not used.  A producer that has not reached the select yet
\* evaluates it afterwards, with whichever cases are ready then.
ParkedAtCancel ==
    IF ipc = "produce" /\ MoreWindows(fromBlock, LoopEnd(currentBlock, head))
       /\ Len(workerChan) = ChanCapacity(config)
    THEN BOOLEAN ELSE { FALSE }

\* one iteration of the producer loop taking the send case of the select;
\* a producer woken by ctx.Done() does not send.  At most MaxWindows
\* iterations of a loop that does not end are followed.
Enqueue ==
    /\ ipc = "produce"
    /\ MoreWindows(fromBlock, LoopEnd(currentBlock, head))
    /\ ~doneWoken
    /\ Len(workerChan) < ChanCapacity(config)
    /\ Len(windows) < MaxWindows
    /\ LET toBlock == ToBlock(fromBlock, config.BatchSize, LoopEnd(currentBlock, head))
       IN /\ windows' = Append(windows, NewWindow(fromBlock, toBlock))
          /\ workerChan' = Append(workerChan, Len(windows) + 1)
          /\ fromBlock' = NextFromBlock(toBlock)
    /\ UNCHANGED << startVars, pureCallVars, doneWoken, listenerVars, stopVars, registryVars, storageVars, storeCallVars, config, head, faults, run,
                    ctxDone, workerCtxDone, ipc, startBlock, fromCheckpoint, currentBlock,
                    chanClosed, wpc, wjob, prevFailed, lateSave >>

\* the producer taking the ctx.Done() case: close, return ctx.Err(), deferred cancel
ProducerCancelled ==
    /\ ipc = "produce"
    /\ MoreWindows(fromBlock, LoopEnd(currentBlock, head))
    /\ DoneCaseReady(ctxDone)
    /\ chanClosed' = TRUE
    /\ workerCtxDone' = TRUE
    /\ ipc' = "cancelled"
    /\ doneWoken' = FALSE
    /\ UNCHANGED << startVars, pureCallVars, listenerVars, stopVars, registryVars, storageVars, storeCallVars, config, head, faults, run,
                    ctxDone, startBlock, fromCheckpoint, fromBlock, currentBlock,
                    workerChan, windows, wpc, wjob, prevFailed, lateSave >>

\* the loop ends: close(workerChan), return nil, and the deferred cancel() runs
ProducerReturn ==
    /\ ipc = "produce"
    /\ ~MoreWindows(fromBlock, LoopEnd(currentBlock, head))
    /\ chanClosed' = TRUE
    /\ workerCtxDone' = TRUE
    /\ ipc' = "done"
    /\ UNCHANGED << startVars, pureCallVars, doneWoken, listenerVars, stopVars, registryVars, storageVars, storeCallVars, config, head, faults, run,
                    ctxDone, startBlock, fromCheckpoint, fromBlock, currentBlock,
                    workerChan, windows, wpc, wjob, prevFailed, lateSave >>

\* The workers run the same code on the same channel: which of the idle
\* workers receives the next window makes no difference to any other part of
\* the state, so the lowest-numbered idle worker is taken as the receiver.
Receiver(w) == wpc[w] = "idle" /\ \A v \in Workers : wpc[v] = "idle" => w <= v

RestOfJobs_Broadcast(ch) == ch

\* what a receive of `range jobs` leaves in the channel for the other
\* receivers
RestOfJobs(ch) == Tail(ch)

\* `for job := range jobs` receives a window; processBatch starts and returns
\* at once when no signature is registered
WorkerTake(w) ==
    /\ Receiver(w)
    /\ workerChan # << >>
    /\ workerChan' = RestOfJobs(workerChan)
    /\ IF NoSignatures(processors)
       THEN /\ windows' = [windows EXCEPT ![Head(workerChan)].result = "ok"]
            /\ UNCHANGED << wpc, wjob >>
       ELSE /\ wpc' = [wpc EXCEPT ![w] = "fetch"]
            /\ wjob' = [wjob EXCEPT ![w] = Head(workerChan)]
            /\ UNCHANGED windows
    /\ UNCHANGED << startVars, pureCallVars, doneWoken, listenerVars, stopVars, registryVars, storageVars, storeCallVars, config, head, faults, run,
                    ctxDone, workerCtxDone, ipc, startBlock, fromCheckpoint, fromBlock,
                    currentBlock, chanClosed, prevFailed, lateSave >>

RangeEnds_Never(ch, closed) == FALSE

\* a receive of `range jobs` reports the end of the channel
RangeEnds(ch, closed) == ch = << >> /\ closed

\* `range jobs` ends: the channel is closed and drained
WorkerExit(w) ==
    /\ wpc[w] = "idle"
    /\ RangeEnds(workerChan, chanClosed)
    /\ wpc' = [wpc EXCEPT ![w] = "exited"]
    /\ wjob' = [wjob EXCEPT ![w] = 0]
    /\ UNCHANGED << startVars, pureCallVars, doneWoken, listenerVars, stopVars, registryVars, storageVars, storeCallVars, config, head, faults, run,
                    ctxDone, workerCtxDone, ipc, startBlock, fromCheckpoint, fromBlock,
                    currentBlock, workerChan, chanClosed, windows, prevFailed, lateSave >>

\* processBatch: client.GetLogs and the decode loop (indexer.go:621-638)
WorkerFetch(w) ==
    /\ wpc[w] = "fetch"
    /\ \E co \in ClientOutcomes(WorkerCtxDone, faults > 0), order \in Perms(DOMAIN processors) :
          LET job == windows[wjob[w]]
              logs == GetLogs(job.from, job.to, SignatureSet(processors))
              evs == DecodeLogs(processors, order, ChainName, logs)
              next == AfterGetLogs(co, Len(evs))
          IN /\ faults' = faults - Injected(co, WorkerCtxDone)
             /\ IF next = "return"
                THEN /\ windows' = [windows EXCEPT ![wjob[w]].result = "error",
                                                   ![wjob[w]].failedAt = "fetch"]
                     /\ wpc' = [wpc EXCEPT ![w] = WorkerAfterBatch(TRUE)]
                ELSE /\ windows' = [windows EXCEPT ![wjob[w]].fetched = TRUE,
                                                   ![wjob[w]].events = evs]
                     /\ wpc' = [wpc EXCEPT ![w] = next]
    /\ UNCHANGED << startVars, pureCallVars, doneWoken, listenerVars, stopVars, registryVars, storageVars, storeCallVars, config, head, run,
                    ctxDone, workerCtxDone, ipc, startBlock, fromCheckpoint, fromBlock,
                    currentBlock, workerChan, chanClosed, wjob, prevFailed, lateSave >>

\* processBatch: storage.SaveEvents (indexer.go:640-645)
WorkerSaveEvents(w) ==
    /\ wpc[w] = "save"
    /\ \E so \in StorageOutcomes(storageKind, WorkerCtxDone, faults > 0) :
          LET next == AfterSaveEvents(so)
          IN /\ faults' = faults - Injected(so, WorkerCtxDone)
             /\ events' = IF so = "ok"
                          THEN SaveEvents(storageKind, events, windows[wjob[w]].events)
                          ELSE events
             /\ windows' = [windows EXCEPT
                   ![wjob[w]].saved = (so = "ok"),
                   ![wjob[w]].failedAt = IF so = "error" THEN "save" ELSE @,
                   ![wjob[w]].result = IF next = "return" THEN "error" ELSE @]
             /\ wpc' = [wpc EXCEPT ![w] = IF next = "return"
                                          THEN WorkerAfterBatch(TRUE) ELSE next]
    /\ UNCHANGED << startVars, pureCallVars, doneWoken, listenerVars, stopVars, registryVars, storageKind, blocks, lastBlocks, storeCallVars, config,
                    head, run, ctxDone, workerCtxDone, ipc, startBlock,
                    fromCheckpoint, fromBlock, currentBlock, workerChan, chanClosed, wjob,
                    prevFailed, lateSave >>

\* processBatch: storage.SaveBlock for the window's end block (indexer.go:647-659)
WorkerSaveBlock(w) ==
    /\ wpc[w] = "block"
    /\ \E so \in StorageOutcomes(storageKind, WorkerCtxDone, faults > 0) :
          LET number == windows[wjob[w]].to
          IN /\ faults' = faults - Injected(so, WorkerCtxDone)
             /\ IF so = "ok"
                THEN /\ blocks' = SaveBlockRows(blocks, number)
                     /\ lastBlocks' = IF storageKind = "memory"
                                      THEN MemorySaveBlockLast(lastBlocks, number)
                                      ELSE lastBlocks
                     /\ windows' = [windows EXCEPT ![wjob[w]].marked = TRUE,
                                                   ![wjob[w]].result = "ok"]
                     /\ lateSave' = (lateSave \/ number < Checkpoint)
                ELSE /\ windows' = [windows EXCEPT ![wjob[w]].result = "error",
                                                   ![wjob[w]].failedAt = "block"]
                     /\ UNCHANGED << blocks, lastBlocks, lateSave >>
             /\ wpc' = [wpc EXCEPT ![w] = WorkerAfterBatch(so = "error")]
    /\ UNCHANGED << startVars, pureCallVars, doneWoken, listenerVars, stopVars, registryVars, storageKind, events, storeCallVars, config, head,
                    run, ctxDone, workerCtxDone, ipc, startBlock, fromCheckpoint, fromBlock,
                    currentBlock, workerChan, chanClosed, wjob, prevFailed >>

\* cmd/indexer/main.go:105: cancel() on SIGINT / SIGTERM.  Once the producer
\* has returned, workerCtx is cancelled already and ctx is read by the
\* listener only.
ParentCancel ==
    /\ ~ctxDone
    /\ ipc \in { "getStart", "getHead", "produce" } \/ lpc \in { "subscribe", "listen" }
    /\ ctxDone' = TRUE
    /\ doneWoken' \in ParkedAtCancel
    /\ UNCHANGED << startVars, pureCallVars, listenerVars, stopVars, registryVars, storageVars, storeCallVars, config, head, faults, run,
                    workerCtxDone, ipc, startBlock, fromCheckpoint, fromBlock, currentBlock,
                    workerChan, chanClosed, windows, wpc, wjob, prevFailed, lateSave >>

\* The chain produces a block.  The head is read by getStartBlock and at the
\* start of indexHistoricalEvents only, so blocks produced later in a run
\* matter to a listening subscription only, which is sent the logs of the
\* block that match its topic filter (events.go:58-75).
NewBlock ==
    /\ head < MaxHead
    /\ ipc \in { "getStart", "getHead" } \/ lpc = "listen"
    /\ head' = head + 1
    /\ logsCh' = IF lpc = "listen"
                 THEN logsCh \o GetLogs(head + 1, head + 1, SignatureSet(processors))
                 ELSE logsCh
    /\ UNCHANGED << startVars, pureCallVars, wsAvailable, lpc, rtSaved, rtFailed, stopVars, registryVars, storageVars, storeCallVars,
                    config, faults, runVars >>

\* Start has returned: the indexChain goroutine and every worker are done
StartReturned ==
    /\ ipc \in { "done", "cancelled", "error" }
    /\ \A w \in Workers : wpc[w] \in { "none", "exited" }

FailedWindows == { i \in DOMAIN windows : windows[i].result = "error" }

\* the indexer is started again on the same storage, with a fresh context
Restart ==
    /\ StartReturned
    /\ run < MaxRuns
    /\ run' = run + 1
    /\ faults' = MaxFaults
    /\ ctxDone' = FALSE
    /\ workerCtxDone' = FALSE
    /\ ipc' = "getStart"
    /\ fromCheckpoint' = FALSE
    /\ prevFailed' = { windows[i].from : i \in FailedWindows }
    /\ windows' = << >>
    /\ workerChan' = << >>
    /\ chanClosed' = FALSE
    /\ wpc' = [w \in Workers |-> "none"]
    /\ wjob' = [w \in Workers |-> 0]
    /\ lpc' = "none"
    /\ logsCh' = << >>
    /\ rtSaved' = {}
    /\ rtFailed' = {}
    /\ stopPc' = "none"
    /\ doneWoken' = FALSE
    /\ UNCHANGED << startVars, pureCallVars, wsAvailable, registryVars, storageVars, storeCallVars, config, head,
                    startBlock, fromBlock, currentBlock, lateSave >>

Configs ==
    [BatchSize : 1..MaxBatch, WorkerCount : 1..MaxWorkers,
     BlockConfirmations : 0..MaxConfirmations, StartFromBlock : { 0, 2 }]

InitRegistryIdle ==
    /\ regOrder = << NewUniswapV2Processor, NewAaveV3Processor >>
    /\ sigCalls = << >>
    /\ lastDispatch = [called |-> FALSE]
    /\ lastDecode = NoDecode
    /\ lastStart = NoStart

NoGet == [called |-> FALSE]

InitStoreCallsIdle ==
    /\ lastSave = [batch |-> << >>, ok |-> FALSE, repeat |-> FALSE, before |-> << >>,
                   failedAt |-> NoFailure, retryOf |-> NoFailure]
    /\ lastGet = NoGet

\* the per-chain goroutines of Start are not looked at
InitStartIdle ==
    /\ chainPc = << >>
    /\ startPc = "idle"
    /\ startErr = "none"

\* no listener has been started, Stop has not been called, the producer is
\* not parked
InitListenerIdle ==
    /\ lpc = "none"
    /\ logsCh = << >>
    /\ rtSaved = {}
    /\ rtFailed = {}
    /\ stopPc = "none"
    /\ doneWoken = FALSE

\* what a run that indexed the single window [n, n] left in storage; n = 0
\* stands for a storage no run has written to
StoredBy(n) ==
    [events |-> IF n = 0 THEN << >>
                ELSE DecodeLogs(MainProcessors, << "uniswap-v2", "aave-v3" >>, ChainName,
                                GetLogs(n, n, SignatureSet(MainProcessors))),
     blocks |-> IF n = 0 THEN {} ELSE { n }]

\* a Start() call on a storage whose checkpoint is one of checkpoints (0: an
\* empty storage); budget failures of the environment can happen, ws tells
\* which clients the chain can have, configs the configurations, registries
\* the decoders that can be registered
InitIndexerFor(registries, configs, checkpoints, budget, ws) ==
    /\ processors \in registries
    /\ wsAvailable \in ws
    /\ InitListenerIdle
    /\ InitStartIdle
    /\ config \in configs
    /\ storageKind \in StorageKinds
    /\ \E n \in checkpoints :
          /\ events = StoredBy(n).events
          /\ blocks = StoredBy(n).blocks
          /\ lastBlocks = IF storageKind = "memory" THEN n ELSE 0
          /\ head \in n..MaxHead
    /\ faults = budget
    /\ run = 1
    /\ ctxDone = FALSE
    /\ workerCtxDone = FALSE
    /\ ipc = "getStart"
    /\ startBlock = 0
    /\ fromCheckpoint = FALSE
    /\ fromBlock = 0
    /\ currentBlock = 0
    /\ workerChan = << >>
    /\ chanClosed = FALSE
    /\ windows = << >>
    /\ wpc = [w \in Workers |-> "none"]
    /\ wjob = [w \in Workers |-> 0]
    /\ prevFailed = {}
    /\ lateSave = FALSE
    /\ InitRegistryIdle
    /\ InitStoreCallsIdle

\* cmd/indexer/main.go registers the Uniswap and the Aave decoder
InitIndexerWith(configs, checkpoints, budget, ws) ==
    InitIndexerFor({ MainProcessors }, configs, checkpoints, budget, ws)

InitIndexerOn(checkpoints, budget, ws) ==
    InitIndexerWith(Configs, checkpoints, budget, ws)

\* a Start() call on an empty storage
InitIndexer(budget, ws) == InitIndexerOn({ 0 }, budget, ws)

\* the chain is configured without a WebSocket URL (ETH_WS_URL unset)
InitRun(budget) == InitIndexer(budget, { FALSE })

Init == InitRun(MaxFaults)

Next ==
    \/ GetStartBlock
    \/ StartHistorical
    \/ Enqueue
    \/ ProducerCancelled
    \/ ProducerReturn
    \/ \E w \in Workers : WorkerTake(w)
    \/ \E w \in Workers : WorkerExit(w)
    \/ \E w \in Workers : WorkerFetch(w)
    \/ \E w \in Workers : WorkerSaveEvents(w)
    \/ \E w \in Workers : WorkerSaveBlock(w)
    \/ ParentCancel
    \/ NewBlock

\* one Start() call on an empty storage
Spec == Init /\ [][Next]_vars

NextRestart == Next \/ Restart

\* Start() calls one after the other on the same storage
SpecRestart == Init /\ [][NextRestart]_vars

\* one Start() call of a new process on a storage that holds a checkpoint
SpecResume == InitIndexerOn(1..MaxHead, MaxFaults, { FALSE }) /\ [][Next]_vars

NextLive ==
    \/ GetStartBlock
    \/ StartHistorical
    \/ Enqueue
    \/ ProducerReturn
    \/ \E w \in Workers : WorkerTake(w)
    \/ \E w \in Workers : WorkerExit(w)
    \/ \E w \in Workers : WorkerFetch(w)
    \/ \E w \in Workers : WorkerSaveEvents(w)
    \/ \E w \in Workers : WorkerSaveBlock(w)
    \/ NewBlock

\* one Start() call whose parent context is never cancelled and whose chain
\* connection and storage never fail; every goroutine that can run does
SpecLive == InitRun(0) /\ [][NextLive]_vars /\ WF_vars(NextLive)

----------------------------------------------------------------------------
(* Properties of the batch scanner                                         *)

Covered(b) == \E i \in DOMAIN windows : windows[i].from <= b /\ b <= windows[i].to

\* C1: when the producer has enqueued its last window and returned, every
\* block from the start block through the effective end block lies in some
\* enqueued window
C1_WindowsCoverRange ==
    ipc = "done" => \A b \in startBlock..currentBlock : Covered(b)

\* C2: the enqueued windows are contiguous and non-overlapping: the first
\* starts at the start block, each has from <= to and at most BatchSize
\* blocks, and each following window starts at the previous to + 1
C2_WindowsContiguous ==
    /\ windows # << >> => windows[1].from = startBlock
    /\ \A i \in DOMAIN windows :
          /\ windows[i].from <= windows[i].to
          /\ windows[i].to - windows[i].from + 1 <= config.BatchSize
          /\ i > 1 => windows[i].from = windows[i - 1].to + 1

C2_Witness ==
    /\ Len(windows) >= 2
    /\ config.BatchSize >= 2
    /\ windows[2].from = windows[1].to + 1

\* C3: a window's SaveBlock is written only after its fetch succeeded and
\* SaveEvents of its decoded events succeeded; a window whose fetch or
\* SaveEvents failed ends in an error and writes no checkpoint
C3_CheckpointAfterPersist ==
    \A i \in DOMAIN windows :
        /\ windows[i].marked =>
              /\ windows[i].fetched
              /\ windows[i].events # << >> => windows[i].saved
        /\ windows[i].failedAt \in { "fetch", "save" } =>
              /\ windows[i].result = "error"
              /\ ~windows[i].marked

C3_Witness ==
    /\ \E i \in DOMAIN windows :
          windows[i].marked /\ windows[i].events # << >> /\ windows[i].saved
    /\ \E j \in DOMAIN windows : windows[j].failedAt = "save"

\* C4: after a restart, the start block resolved from the stored checkpoint
\* is at or before every window that failed in the previous run
C4_RestartReattemptsFailed ==
    (run > 1 /\ fromCheckpoint) => \A f \in prevFailed : startBlock <= f

\* C14: when getStartBlock reads a checkpoint N > 0 from storage it returns
\* N + 1, whatever the chain head is, and the first window enqueued in that
\* run starts at N + 1
C14_ResumeAfterCheckpoint ==
    [][/\ (ipc = "getStart" /\ ipc' = "getHead" /\ Checkpoint > 0 /\ faults' = faults) =>
            (startBlock' = Checkpoint + 1 /\ fromCheckpoint')
       /\ (fromCheckpoint /\ windows = << >> /\ windows' # << >>) =>
            windows'[1].from = startBlock]_vars

C14_Witness ==
    /\ fromCheckpoint
    /\ windows # << >>
    /\ windows[1].from = startBlock
    /\ head > startBlock

\* C15: no enqueued window ends above head - confirmations, the head being
\* the one indexHistoricalEvents read, also when head <= confirmations
C15_WindowsBelowConfirmations ==
    \A i \in DOMAIN windows : windows[i].to + config.BlockConfirmations <= head

\* the logs of block b that a decoder of cmd/indexer rejects with an error,
\* and those it turns into an event
Rejected(b) ==
    { k \in DOMAIN LogsInBlock(b) :
        processLog(MainProcessors, << "uniswap-v2", "aave-v3" >>, ChainName,
                   LogsInBlock(b)[k]).result = "error" }

Decoded(b) ==
    { k \in DOMAIN LogsInBlock(b) :
        processLog(MainProcessors, << "uniswap-v2", "aave-v3" >>, ChainName,
                   LogsInBlock(b)[k]).result = "event" }

\* C18: a window whose logs were fetched holds the event of every log of its
\* range that decodes, whether or not another log of the range was rejected,
\* and it goes on to SaveEvents and SaveBlock: unless one of those fails, it
\* is checkpointed
C18_DecodeErrorDropsOneLog ==
    \A i \in DOMAIN windows :
        windows[i].fetched =>
            /\ \A b \in windows[i].from..windows[i].to :
                  \A k \in Decoded(b) :
                      \E n \in DOMAIN windows[i].events :
                          /\ windows[i].events[n].BlockNumber = b
                          /\ windows[i].events[n].LogIndex = LogsInBlock(b)[k].Index
            /\ \/ windows[i].marked
               \/ windows[i].failedAt \in { "save", "block" }
               \/ \E w \in Workers : wjob[w] = i /\ wpc[w] \in { "save", "block" }

C18_Witness ==
    \E i \in DOMAIN windows :
        /\ \E b \in windows[i].from..windows[i].to : Rejected(b) # {}
        /\ \E b \in windows[i].from..windows[i].to : Decoded(b) # {}
        /\ windows[i].events # << >>
        /\ windows[i].saved
        /\ windows[i].marked

\* C20: the step in which a window's processBatch fails leaves the worker
\* ready to receive its next window and changes no other window, no other
\* worker and not the job channel; a failed window stays as it failed and
\* its blocks are in no window enqueued later in the run
C20_FailureContainedInWindow ==
    [][/\ \A w \in Workers :
            (/\ wpc[w] \in { "fetch", "save", "block" }
             /\ windows[wjob[w]].result # "error"
             /\ windows'[wjob[w]].result = "error") =>
                /\ wpc'[w] = "idle"
                /\ \A v \in Workers \ { w } : wpc'[v] = wpc[v]
                /\ \A j \in DOMAIN windows \ { wjob[w] } : windows'[j] = windows[j]
                /\ workerChan' = workerChan
                /\ chanClosed' = chanClosed
       /\ \A i \in DOMAIN windows :
            windows[i].result = "error" =>
                /\ i \in DOMAIN windows'
                /\ windows'[i] = windows[i]
                /\ \A j \in DOMAIN windows' \ DOMAIN windows :
                      windows'[j].from > windows[i].to]_vars

C20_Witness ==
    /\ config.WorkerCount = 1
    /\ \E i, j \in DOMAIN windows :
          /\ i < j
          /\ windows[i].result = "error"
          /\ windows[j].marked

\* the events of a window are in storage (or it has none to store)
Persisted(win) == win.saved \/ (win.fetched /\ win.events = << >>)

\* C5: with two or more workers and no failing window, once a checkpoint
\* N is stored every window whose end block is at or below N has had its
\* events persisted
C5_CheckpointBelowCompleted ==
    (config.WorkerCount >= 2 /\ FailedWindows = {} /\ Checkpoint > 0) =>
        \A i \in DOMAIN windows :
            windows[i].to <= Checkpoint => Persisted(windows[i])

\* C6: the value GetLastIndexedBlock returns never decreases, whatever the
\* order in which the workers' SaveBlock calls arrive
C6_CheckpointMonotonic ==
    [][GetLastIndexedBlock(storageKind, blocks', lastBlocks') >= Checkpoint]_vars

C6_Witness == lateSave

\* C7: with no cancellation of the parent context and no failure, a run
\* that has finished has fetched and checkpointed every enqueued window
C7_AllWindowsCheckpointed ==
    (ipc = "done" /\ \A w \in Workers : wpc[w] = "exited") =>
        \A i \in DOMAIN windows : windows[i].marked

----------------------------------------------------------------------------
(* The realtime listener (indexer.go:705-744) and Stop (indexer.go:746-750) *)

scannerVars == << run, workerCtxDone, ipc, startBlock, fromCheckpoint, fromBlock,
                  currentBlock, workerChan, chanClosed, windows, wpc, wjob, doneWoken,
                  prevFailed, lateSave >>

\* listenToRealtimeEvents up to its loop: no signature registered -> return;
\* SubscribeLogs fails (cancelled context, connection error) -> return
ListenerSubscribe ==
    /\ lpc = "subscribe"
    /\ IF NoSignatures(processors)
       THEN /\ lpc' = "exited"
            /\ UNCHANGED faults
       ELSE \E co \in ClientOutcomes(ctxDone, faults > 0) :
               /\ faults' = faults - Injected(co, ctxDone)
               /\ lpc' = IF co = "error" THEN "exited" ELSE "listen"
    /\ UNCHANGED << startVars, pureCallVars, wsAvailable, logsCh, rtSaved, rtFailed, stopVars, registryVars, storageVars,
                    storeCallVars, config, head, ctxDone, scannerVars >>

NextLog_Newest(ch) == ch[Len(ch)]

\* log := <-logs receives the log the subscription delivered first
NextLog(ch) == Head(ch)

\* what is left for the later receives
RestOfLogs(ch) == Tail(ch)

AfterRealtimeSave_ReturnOnError(outcome) == IF outcome = "ok" THEN "listen" ELSE "exited"

\* if err := idx.storage.SaveEvents(...); err != nil { fmt.Printf(...) }: the
\* loop goes on whatever the outcome
AfterRealtimeSave(outcome) == "listen"

ListenerSeesDone_Never(done) == FALSE

\* case <-ctx.Done() of the listener's select can be taken
ListenerSeesDone(done) == done

AfterSubscriptionError_Resubscribe == "subscribe"

\* case err := <-sub.Err(): print and return
AfterSubscriptionError == "exited"

RealtimeBlockRows_SaveBlock(blks, log) == SaveBlockRows(blks, log.BlockNumber)

\* the rows of indexed_blocks after case log := <-logs, which holds no
\* SaveBlock call
RealtimeBlockRows(blks, log) == blks

\* case log := <-logs: processLog, and SaveEvents of the event if there is
\* one; a SaveEvents error is printed and the loop goes on
ListenerReceive ==
    /\ lpc = "listen"
    /\ logsCh # << >>
    /\ logsCh' = RestOfLogs(logsCh)
    /\ \E order \in Perms(DOMAIN processors) :
          LET r == processLog(processors, order, ChainName, NextLog(logsCh))
          IN IF r.result = "event"
             THEN \E so \in StorageOutcomes(storageKind, ctxDone, faults > 0) :
                     /\ faults' = faults - Injected(so, ctxDone)
                     /\ events' = IF so = "ok"
                                  THEN SaveEvents(storageKind, events, << r.event >>)
                                  ELSE events
                     /\ rtSaved' = IF so = "ok"
                                   THEN rtSaved \cup { EventKey(r.event) }
                                   ELSE rtSaved
                     /\ rtFailed' = IF so = "ok"
                                    THEN rtFailed
                                    ELSE rtFailed \cup { EventKey(r.event) }
                     /\ lpc' = AfterRealtimeSave(so)
             ELSE UNCHANGED << faults, events, rtSaved, rtFailed, lpc >>
    /\ blocks' = RealtimeBlockRows(blocks, NextLog(logsCh))
    /\ UNCHANGED << startVars, pureCallVars, wsAvailable, stopVars, registryVars, storageKind,
                    lastBlocks, storeCallVars, config, head, ctxDone, scannerVars >>

\* case <-ctx.Done(): sub.Unsubscribe(), return
ListenerCancelled ==
    /\ lpc = "listen"
    /\ ListenerSeesDone(ctxDone)
    /\ lpc' = "exited"
    /\ logsCh' = << >>
    /\ UNCHANGED << startVars, pureCallVars, wsAvailable, rtSaved, rtFailed, stopVars, registryVars, storageVars,
                    storeCallVars, config, head, faults, ctxDone, scannerVars >>

\* case err := <-sub.Err(): the subscription broke; return, no reconnection
ListenerSubscriptionError ==
    /\ lpc = "listen"
    /\ faults > 0
    /\ faults' = faults - 1
    /\ lpc' = AfterSubscriptionError
    /\ logsCh' = << >>
    /\ UNCHANGED << startVars, pureCallVars, wsAvailable, rtSaved, rtFailed, stopVars, registryVars, storageVars,
                    storeCallVars, config, head, ctxDone, scannerVars >>

\* the counter of idx.wg: Start adds one for the indexChain goroutine, done
\* when indexChain returns; indexHistoricalEvents adds one per worker, done
\* when the worker returns.  The listener is started without wg.Add.
WaitGroupCount ==
    (IF ipc \in { "getStart", "getHead", "produce" } THEN 1 ELSE 0)
    + Cardinality({ w \in Workers : wpc[w] \notin { "none", "exited" } })

\* Stop() is called, after Start has counted its goroutine in
CallStop ==
    /\ stopPc = "none"
    /\ stopPc' = "waiting"
    /\ UNCHANGED << startVars, pureCallVars, listenerVars, registryVars, storageVars, storeCallVars, config,
                    head, faults, ctxDone, scannerVars >>

\* idx.wg.Wait() returns and Stop with it
StopReturn ==
    /\ stopPc = "waiting"
    /\ WaitGroupCount = 0
    /\ stopPc' = "returned"
    /\ UNCHANGED << startVars, pureCallVars, listenerVars, registryVars, storageVars, storeCallVars, config,
                    head, faults, ctxDone, scannerVars >>

NextService ==
    \/ GetStartBlock
    \/ StartHistorical
    \/ Enqueue
    \/ ProducerCancelled
    \/ ProducerReturn
    \/ \E w \in Workers : WorkerTake(w)
    \/ \E w \in Workers : WorkerExit(w)
    \/ \E w \in Workers : WorkerFetch(w)
    \/ \E w \in Workers : WorkerSaveEvents(w)
    \/ \E w \in Workers : WorkerSaveBlock(w)
    \/ ParentCancel
    \/ NewBlock
    \/ ListenerSubscribe
    \/ ListenerReceive
    \/ ListenerCancelled
    \/ ListenerSubscriptionError
    \/ CallStop
    \/ StopReturn

\* one Start() call on a chain with or without a WebSocket connection, and
\* a caller that can cancel the context and call Stop()
SpecService == InitIndexer(MaxFaults, BOOLEAN) /\ [][NextService]_vars

\* C11: an event that both the batch scanner and the listener have had
\* SaveEvents store is in the stored events exactly once
C11_BothPathsStoreOnce ==
    \A i \in DOMAIN windows :
        windows[i].saved =>
            \A k \in DOMAIN windows[i].events :
                EventKey(windows[i].events[k]) \in rtSaved =>
                    Cardinality({ n \in DOMAIN events :
                        EventKey(events[n]) = EventKey(windows[i].events[k]) }) = 1

\* C12: when Stop() has returned, the indexChain goroutine, every worker and
\* the listener have exited
C12_StopJoinsEveryGoroutine ==
    stopPc = "returned" =>
        /\ ipc \in { "done", "cancelled", "error" }
        /\ \A w \in Workers : wpc[w] \in { "none", "exited" }
        /\ lpc \in { "none", "exited" }

\* C13: once Stop() has been called while the producer still has windows to
\* enqueue, the shared context is cancelled, whether or not the caller
\* cancelled it
C13_StopCancelsContext ==
    (stopPc # "none" /\ ipc = "produce" /\ MoreWindows(fromBlock, currentBlock)) => ctxDone

----------------------------------------------------------------------------
(* The registry on its own: registrations during setup, then calls of      *)
(* getAllEventSignatures and processLog on the registered decoders.        *)

\* decoders a caller can register: the Uniswap V2 decoder of cmd/indexer and
\* generic ERC20 decoders, which take their protocol name and their tokens
\* from the caller and all claim the Transfer signature
ProcessorPool ==
    { NewUniswapV2Processor,
      NewGenericERC20Processor("tokens-a", { "usdc" }),
      NewGenericERC20Processor("tokens-b", { "usdc" }),
      NewGenericERC20Processor("tokens-b", { "dai" }) }

RawLog(address, topics, dataLen) ==
    [BlockNumber |-> 1, TxHash |-> 1, Index |-> 0, Address |-> address,
     Topics |-> topics, DataLen |-> dataLen]

LogPool ==
    { RawLog("usdc", << "Transfer", "from", "to" >>, WordLen),
      RawLog("dai", << "Transfer", "from", "to" >>, WordLen),
      RawLog("usdc", << "Transfer" >>, WordLen),
      RawLog("pair", << "Swap", "sender", "to" >>, SwapDataLen),
      RawLog("pair", << "Swap", "sender", "to" >>, PairDataLen),
      RawLog("pair", << "Swap" >>, SwapDataLen),
      RawLog("usdc", << "Approval", "owner", "spender" >>, WordLen),
      RawLog("usdc", << >>, 0) }

NoDispatch == [called |-> FALSE]

\* RegisterProcessor during setup
RegisterProcessor(p) ==
    /\ Len(regOrder) < MaxProcessors
    /\ processors' = RegisterProcessorMap(processors, p)
    /\ regOrder' = Append(regOrder, p)
    /\ sigCalls' = << >>
    /\ lastDispatch' = NoDispatch
    /\ UNCHANGED << startVars, pureCallVars, listenerVars, stopVars, storageVars, storeCallVars, config, head, faults, runVars >>

\* A call of getAllEventSignatures.  The function keeps no state between
\* calls, so what two calls in a row can return is what any two calls can
\* return: the history holds one pair of results.
CallGetAllEventSignatures ==
    /\ Len(sigCalls) < 2
    /\ \E sigs \in getAllEventSignatures(processors) : sigCalls' = Append(sigCalls, sigs)
    /\ lastDispatch' = NoDispatch
    /\ UNCHANGED << startVars, pureCallVars, listenerVars, stopVars, processors, regOrder, storageVars, storeCallVars, config, head, faults,
                    runVars >>

\* a call of processLog
CallProcessLog(log) ==
    /\ \E order \in Perms(DOMAIN processors) :
          LET r == processLog(processors, order, ChainName, log)
          IN lastDispatch' = [called |-> TRUE, log |-> log, invoked |-> r.invoked,
                              result |-> r.result, event |-> r.event]
    /\ sigCalls' = << >>
    /\ UNCHANGED << startVars, pureCallVars, listenerVars, stopVars, processors, regOrder, storageVars, storeCallVars, config,
                    head, faults, runVars >>

IdleConfig ==
    [BatchSize |-> 1, WorkerCount |-> 1, BlockConfirmations |-> 0, StartFromBlock |-> 0]

\* no indexChain task is running
InitRunIdle ==
    /\ config = IdleConfig
    /\ head = 0
    /\ faults = 0
    /\ run = 0
    /\ ctxDone = FALSE
    /\ workerCtxDone = FALSE
    /\ ipc = "idle"
    /\ startBlock = 0
    /\ fromCheckpoint = FALSE
    /\ fromBlock = 0
    /\ currentBlock = 0
    /\ workerChan = << >>
    /\ chanClosed = FALSE
    /\ windows = << >>
    /\ wpc = [w \in Workers |-> "none"]
    /\ wjob = [w \in Workers |-> 0]
    /\ prevFailed = {}
    /\ lateSave = FALSE
    /\ wsAvailable = FALSE
    /\ InitListenerIdle

InitStorageEmpty ==
    /\ events = << >>
    /\ blocks = {}
    /\ lastBlocks = 0

\* NewIndexer: processors: make(map[string]EventProcessor)
InitRegistry ==
    /\ processors = [n \in {} |-> NewUniswapV2Processor]
    /\ regOrder = << >>
    /\ sigCalls = << >>
    /\ lastDispatch = NoDispatch
    /\ lastDecode = NoDecode
    /\ lastStart = NoStart
    /\ storageKind = "memory"
    /\ InitStorageEmpty
    /\ InitStoreCallsIdle
    /\ InitRunIdle
    /\ InitStartIdle

NextRegistry ==
    \/ \E p \in ProcessorPool : RegisterProcessor(p)
    \/ CallGetAllEventSignatures
    \/ \E log \in LogPool : CallProcessLog(log)

SpecRegistry == InitRegistry /\ [][NextRegistry]_vars

\* the registered decoders that claim signature sig, in registration order
Claimers(sig) == SelectSeq(regOrder, LAMBDA p : sig \in Range(GetEventSignatures(p)))

\* C8: when two or more registered decoders claim the primary topic of a
\* dispatched log, the log is handed to the first registered of them and to
\* no other
C8_FirstRegisteredDecoderWins ==
    (lastDispatch.called /\ Len(lastDispatch.log.Topics) > 0) =>
        LET claimers == Claimers(lastDispatch.log.Topics[1])
        IN Len(claimers) >= 2 => lastDispatch.invoked = << claimers[1] >>

NoRepeats(s) == \A i, j \in DOMAIN s : i # j => s[i] # s[j]

\* C9: with the registered decoders fixed, every call of
\* getAllEventSignatures returns the same sequence, which holds each hash
\* claimed by some registered decoder exactly once
C9_SignaturesStable ==
    \A i, j \in DOMAIN sigCalls :
        /\ sigCalls[i] = sigCalls[j]
        /\ NoRepeats(sigCalls[i])
        /\ Range(sigCalls[i]) =
              UNION { Range(GetEventSignatures(regOrder[k])) : k \in DOMAIN regOrder }

\* registrations during setup, then calls of processLog
NextDispatch ==
    \/ \E p \in ProcessorPool : RegisterProcessor(p)
    \/ \E log \in LogPool : CallProcessLog(log)

SpecDispatch == InitRegistry /\ [][NextDispatch]_vars

\* C16: a call of processLog invokes Process on at most one decoder, whatever
\* that decoder returns
C16_AtMostOneDecoderInvoked ==
    lastDispatch.called => Len(lastDispatch.invoked) <= 1

\* the signatures some registered decoder claims
ClaimedSignatures ==
    UNION { Range(GetEventSignatures(regOrder[k])) : k \in DOMAIN regOrder }

\* the dispatched log has no topics, or a primary topic no decoder claims
Unmatched(log) == Len(log.Topics) = 0 \/ log.Topics[1] \notin ClaimedSignatures

\* C17: a log that has no topics, or whose primary topic no registered
\* decoder claims, is given to no decoder and yields no event and no error
C17_UnmatchedLogIgnored ==
    (lastDispatch.called /\ Unmatched(lastDispatch.log)) =>
        /\ lastDispatch.invoked = << >>
        /\ lastDispatch.result = "nil"
        /\ lastDispatch.event = NoEvent

C17_Witness ==
    /\ lastDispatch.called
    /\ Len(regOrder) = 2
    /\ Len(lastDispatch.log.Topics) > 0
    /\ Unmatched(lastDispatch.log)
    /\ lastDispatch.invoked = << >>

\* C19: Process of a built-in decoder ends with an event, the no-event
\* result or an error for every log whose primary topic the decoder claims
C19_ProcessNeverAborts ==
    lastDispatch.called => lastDispatch.result # "panic"

\* C30: after any sequence of registrations the registry holds every
\* registered decoder, also those registered under a protocol name another
\* decoder reports
C30_RegistryHoldsEveryRegistration ==
    \A k \in DOMAIN regOrder : \E n \in DOMAIN processors : processors[n] = regOrder[k]

----------------------------------------------------------------------------
(* processSwap on the bytes of a log (processors.go:67-90)                 *)

\* the low bytes of the payload words tried; the other bytes are zero
WordTails == { << 0 >>, << 1, 0 >>, << 1, 2, 3 >> }

\* a 32-byte topic: 12 bytes of padding, then the 20 bytes of an address
AddressTopic(pad, first) ==
    [i \in 1..WordLen |-> IF i <= WordLen - AddressLen THEN pad ELSE first + i]

SwapTopics ==
    { << "Swap", AddressTopic(0, 0), AddressTopic(255, 100) >>,
      << "Swap", AddressTopic(255, 100), AddressTopic(0, 0), AddressTopic(0, 0) >> }

\* payloads of four words, of four words and more, and shorter ones
SwapPayloads ==
    LET full == { PadWord(a) \o PadWord(b) \o PadWord(c) \o PadWord(d) :
                    a \in WordTails, b \in WordTails, c \in WordTails, d \in WordTails }
        some == PadWord(<< 1, 2, 3 >>) \o PadWord(<< 1, 0 >>) \o PadWord(<< 0 >>)
                    \o PadWord(<< 7 >>)
    IN full \cup { some \o PadWord(<< 9 >>),
                   SubSeq(some, 1, SwapDataLen - 1),
                   SubSeq(some, 1, PairDataLen),
                   << >> }

SwapLog(topics, data) ==
    [BlockNumber |-> 1, TxHash |-> 1, Index |-> 0, Address |-> "pair",
     Topics |-> topics, Data |-> data, DataLen |-> Len(data)]

SwapLogPool == { SwapLog(t, d) : t \in SwapTopics, d \in SwapPayloads }

\* UniswapV2Processor.Process on a log whose primary topic is Swap
CallProcessSwap(log) ==
    /\ lastDecode' = [called |-> TRUE, log |-> log,
                      result |-> processSwap(NewUniswapV2Processor, log)]
    /\ UNCHANGED << startVars, lastStart, registryVars, listenerVars, stopVars, storageVars,
                    storeCallVars, config, head, faults, runVars >>

InitSwap ==
    /\ processors = MainProcessors
    /\ InitRegistryIdle
    /\ storageKind = "memory"
    /\ InitStorageEmpty
    /\ InitStoreCallsIdle
    /\ InitRunIdle
    /\ InitStartIdle

NextSwap == \E log \in SwapLogPool : CallProcessSwap(log)

SpecSwap == InitSwap /\ [][NextSwap]_vars

\* the unsigned integer a big-endian byte string stands for: byte k of n
\* counts 256^(n-k) times
RECURSIVE BigEndianValue(_)
BigEndianValue(bytes) ==
    IF bytes = << >> THEN 0
    ELSE IF Head(bytes) = 0 THEN BigEndianValue(Tail(bytes))
    ELSE Head(bytes) * 256 ^ (Len(bytes) - 1) + BigEndianValue(Tail(bytes))

\* the number a string of decimal digits stands for
RECURSIVE DecimalValue(_)
DecimalValue(digits) ==
    IF digits = << >> THEN 0
    ELSE Head(digits) * 10 ^ (Len(digits) - 1) + DecimalValue(Tail(digits))

\* digits is the base-10 string of the word: decimal digits, no leading
\* zero, of the same value
IsDecimalOf(digits, word) ==
    /\ Len(digits) >= 1
    /\ \A i \in DOMAIN digits : digits[i] \in 0..9
    /\ Len(digits) > 1 => digits[1] # 0
    /\ DecimalValue(digits) = BigEndianValue(word)

\* address is the last 20 bytes of the topic
IsAddressOf(address, topic) ==
    /\ Len(address) = AddressLen
    /\ \A i \in 1..AddressLen : address[i] = topic[WordLen - AddressLen + i]

\* C34: a Swap log with three topics or more and a payload of 128 bytes or
\* more decodes to a Swap event whose amounts are the base-10 strings of
\* the first four big-endian words of the payload and whose sender and to
\* are the addresses of topics 1 and 2; a shorter payload is an error and
\* no event
C34_SwapDecoded ==
    lastDecode.called =>
        LET log == lastDecode.log
            r == lastDecode.result
        IN IF Len(log.Data) >= 128
           THEN /\ r.kind = "event"
                /\ r.event.EventName = "Swap"
                /\ DOMAIN r.data = { "sender", "to", "amount0_in", "amount1_in",
                                     "amount0_out", "amount1_out" }
                /\ IsDecimalOf(r.data.amount0_in, SubSeq(log.Data, 1, 32))
                /\ IsDecimalOf(r.data.amount1_in, SubSeq(log.Data, 33, 64))
                /\ IsDecimalOf(r.data.amount0_out, SubSeq(log.Data, 65, 96))
                /\ IsDecimalOf(r.data.amount1_out, SubSeq(log.Data, 97, 128))
                /\ IsAddressOf(r.data.sender, log.Topics[2])
                /\ IsAddressOf(r.data.to, log.Topics[3])
           ELSE /\ r.kind = "error"
                /\ r.event = NoEvent

C34_Witness ==
    /\ lastDecode.called
    /\ lastDecode.result.kind = "event"
    /\ lastDecode.result.data.amount0_in = << 6, 6, 0, 5, 1 >>
    /\ lastDecode.result.data.amount1_in = << 2, 5, 6 >>
    /\ lastDecode.result.data.amount1_out = << 7 >>
    /\ Len(lastDecode.log.Data) > SwapDataLen

----------------------------------------------------------------------------
(* getStartBlock on its own (indexer.go:528-551), with heads on both sides *)
(* of the default lookback                                                 *)

StartHeads == { 0, 1, 2, 3, DefaultStartFrom - 1, DefaultStartFrom, DefaultStartFrom + 1,
                DefaultStartFrom + 3 }

StartFromBlocks == { 0, 2, DefaultStartFrom + 1 }

\* what GetLastIndexedBlock has to return: nothing stored, or a checkpoint
StoredCheckpoints == { 0, 5 }

CallOutcomePairs == { "ok", "error" } \X { "ok", "error" }

CallGetStartBlock(so, lastIndexed, co, current, startFrom) ==
    /\ lastStart' =
          [called |-> TRUE, so |-> so, lastIndexed |-> lastIndexed, co |-> co,
           current |-> current, startFrom |-> startFrom,
           result |-> getStartBlock(so, lastIndexed, co, current,
                                    [IdleConfig EXCEPT !.StartFromBlock = startFrom])]
    /\ UNCHANGED << startVars, lastDecode, registryVars, listenerVars, stopVars, storageVars,
                    storeCallVars, config, head, faults, runVars >>

NextStartBlock ==
    \E oc \in CallOutcomePairs, lastIndexed \in StoredCheckpoints,
       current \in StartHeads, startFrom \in StartFromBlocks :
          CallGetStartBlock(oc[1], lastIndexed, oc[2], current, startFrom)

SpecStartBlock == InitSwap /\ [][NextStartBlock]_vars

\* the lookback of the claim: Config.StartFromBlock, or 1000 when that is 0
Lookback(startFrom) == IF startFrom = 0 THEN 1000 ELSE startFrom

\* C35: with no usable checkpoint (nothing stored, or GetLastIndexedBlock
\* failed) getStartBlock returns head - lookback when head > lookback and 0
\* otherwise, never a block above the head, and returns the error of a
\* failing head query
C35_DefaultStartBlock ==
    (lastStart.called /\ (lastStart.lastIndexed = 0 \/ lastStart.so = "error")) =>
        LET r == lastStart.result
            lookback == Lookback(lastStart.startFrom)
        IN IF lastStart.co = "ok"
           THEN /\ ~r.err
                /\ r.block = IF lastStart.current > lookback
                             THEN lastStart.current - lookback ELSE 0
                /\ r.block <= lastStart.current
           ELSE r.err

C35_Witness ==
    /\ lastStart.called
    /\ lastStart.so = "error"
    /\ lastStart.lastIndexed > 0
    /\ lastStart.startFrom = 0
    /\ lastStart.result.block = 3

----------------------------------------------------------------------------
(* The Storage implementations on their own                                *)

StoredEvent(chain, tx, index) ==
    [Chain |-> chain, BlockNumber |-> 1, TransactionHash |-> tx, LogIndex |-> index,
     Protocol |-> "uniswap-v2", EventName |-> "Swap"]

EventPool ==
    { StoredEvent("ethereum", 1, 0), StoredEvent("ethereum", 1, 1),
      StoredEvent("polygon", 1, 0) }

\* the batches a caller passes: events of distinct logs
Batches ==
    { << e >> : e \in EventPool } \cup
    { b \in { << e, f >> : e \in EventPool, f \in EventPool } : b[1] # b[2] }

\* a SaveEvents call with a live context
CallSaveEvents(batch) ==
    /\ Len(events) + Len(batch) <= MaxStored
    /\ \E so \in StorageOutcomes(storageKind, FALSE, TRUE) :
       \E fail \in IF so = "ok" THEN { NoFailure } ELSE FailPoints(batch) :
          /\ events' = IF storageKind = "postgres"
                       THEN PostgresSaveEventsTx(events, batch, fail).stored
                       ELSE SaveEvents(storageKind, events, batch)
          /\ lastSave' = [batch |-> batch, ok |-> so = "ok",
                          repeat |-> so = "ok" /\ lastSave.ok /\ lastSave.batch = batch,
                          before |-> events,
                          failedAt |-> fail,
                          retryOf |-> IF so = "ok" /\ lastSave.batch = batch
                                      THEN lastSave.failedAt ELSE NoFailure]
    /\ lastGet' = NoGet
    /\ UNCHANGED << startVars, pureCallVars, listenerVars, stopVars, registryVars, storageKind, blocks, lastBlocks, config, head, faults,
                    runVars >>

\* the chains and block ranges a caller asks for
QueryChains == { "ethereum", "polygon" }

QueryBlocks == 0..2

\* a GetEvents call with a live context
CallGetEvents(chain, from, to) ==
    /\ lastGet' = [called |-> TRUE, chain |-> chain, from |-> from, to |-> to,
                   result |-> GetEvents(storageKind, events, chain, from, to)]
    /\ UNCHANGED << startVars, pureCallVars, listenerVars, stopVars, registryVars, storageVars, lastSave,
                    config, head, faults, runVars >>

InitStorage ==
    /\ storageKind \in StorageKinds
    /\ InitStorageEmpty
    /\ InitStoreCallsIdle
    /\ processors = MainProcessors
    /\ InitRegistryIdle
    /\ InitRunIdle
    /\ InitStartIdle

NextStorage ==
    \/ \E batch \in Batches : CallSaveEvents(batch)
    \/ \E chain \in QueryChains, from \in QueryBlocks, to \in QueryBlocks :
          CallGetEvents(chain, from, to)

SpecStorage == InitStorage /\ [][NextStorage]_vars

\* C10: a second SaveEvents call with the batch of the call before it leaves
\* the stored events as they were, and no two stored events share
\* (chain, transaction hash, log index)
C10_SaveEventsIdempotent ==
    /\ lastSave.repeat => events = lastSave.before
    /\ \A i, j \in DOMAIN events : i # j => EventKey(events[i]) # EventKey(events[j])

\* how many stored events have the key of e
TimesStored(e) ==
    Cardinality({ i \in DOMAIN events : EventKey(events[i]) = EventKey(e) })

\* C40: a PostgresStorage.SaveEvents call that returns an error, wherever
\* in the transaction it comes from, leaves the stored events as they
\* were before the call; a later successful call with the same batch
\* leaves every event of the batch stored exactly once
C40_FailedBatchStoresNothing ==
    storageKind = "postgres" =>
        /\ lastSave.failedAt # NoFailure => (~lastSave.ok /\ events = lastSave.before)
        /\ lastSave.retryOf # NoFailure =>
              /\ lastSave.ok
              /\ \A k \in 1..Len(lastSave.batch) : TimesStored(lastSave.batch[k]) = 1

C40_Witness ==
    /\ storageKind = "postgres"
    /\ lastSave.retryOf = [at |-> "exec", k |-> 2]
    /\ Len(lastSave.batch) = 2
    /\ lastSave.before = << >>
    /\ Len(events) = 2

\* C32: GetEvents returns the stored events of the chain in the block range,
\* and returns them ordered by (block number, log index)
C32_GetEventsOrdered ==
    lastGet.called =>
        /\ Range(lastGet.result) =
              { e \in Range(events) : InRange(e, lastGet.chain, lastGet.from, lastGet.to) }
        /\ \A i, j \in DOMAIN lastGet.result :
              i < j => ~BlockLogOrder(lastGet.result[j], lastGet.result[i])

----------------------------------------------------------------------------
(* The producer and the work channel (indexer.go:564-593)                  *)

\* the windows sent to the channel and not received by a worker yet
Queued == { workerChan[i] : i \in DOMAIN workerChan }

\* worker w is inside processBatch
InProcessBatch(w) == wpc[w] \in { "fetch", "save", "block" }

\* the windows inside processBatch
InProcess == { wjob[w] : w \in { v \in Workers : InProcessBatch(v) } }

\* the windows waiting in the channel
InChannel == { workerChan[k] : k \in 1..Len(workerChan) }

\* C39: a window leaves the channel into the hands of one worker and never
\* comes back: no two workers are inside processBatch for the same window,
\* a window a worker holds or has finished is not in the channel, a window
\* is taken only while it is pending and untouched, and no more windows
\* than WorkerCount are inside processBatch at once
C39_WindowTakenOnce ==
    /\ [](\A v, w \in Workers :
             (InProcessBatch(v) /\ InProcessBatch(w) /\ wjob[v] = wjob[w]) => v = w)
    /\ [](\A j, k \in 1..Len(workerChan) : workerChan[j] = workerChan[k] => j = k)
    /\ [](InProcess \cap InChannel = {})
    /\ [](\A i \in InChannel : windows[i].result = "pending" /\ ~windows[i].fetched)
    /\ [](Cardinality(InProcess) <= config.WorkerCount)
    /\ [][\A w \in Workers :
            (~InProcessBatch(w) /\ InProcessBatch(w)') =>
                /\ wjob'[w] = Head(workerChan)
                /\ wjob'[w] \notin InChannel'
                /\ windows[wjob'[w]].result = "pending"
                /\ ~windows[wjob'[w]].fetched
                /\ \A v \in Workers \ { w } : InProcessBatch(v)' = InProcessBatch(v)]_vars
    /\ [][\A i \in 1..Len(windows) :
            i \notin InChannel => (i \notin InChannel' /\ (i \notin InProcess => i \notin InProcess'))]_vars

C39_Witness ==
    /\ config.WorkerCount = 2
    /\ InProcessBatch(1)
    /\ InProcessBatch(2)
    /\ wjob[1] # wjob[2]
    /\ workerChan # << >>

\* a window whose fetch succeeded and whose decode loop kept no event
FetchedEmpty(i) == windows[i].fetched /\ windows[i].events = << >>

\* C36: when a window's fetch succeeds and yields no decoded event,
\* processBatch goes straight to SaveBlock: SaveEvents is not called for
\* the window and the stored events stay as they are, and the SaveBlock
\* that follows writes the window's end block as the checkpoint
C36_EmptyWindowStillCheckpointed ==
    /\ [](\A i \in 1..Len(windows) : FetchedEmpty(i) =>
             /\ ~windows[i].saved
             /\ windows[i].failedAt # "save"
             /\ \A w \in Workers : wjob[w] = i => wpc[w] # "save")
    /\ [][\A w \in Workers :
            (wpc[w] = "fetch" /\ wpc'[w] # "fetch" /\ FetchedEmpty(wjob[w])')
                => (wpc'[w] = "block" /\ events' = events)]_vars
    /\ [][\A w \in Workers :
            (wpc[w] = "block" /\ FetchedEmpty(wjob[w]) /\ wpc'[w] # "block")
                => IF windows'[wjob[w]].result = "ok"
                   THEN /\ windows'[wjob[w]].marked
                        /\ windows[wjob[w]].to \in blocks'
                        /\ Checkpoint' >= windows[wjob[w]].to
                   ELSE windows'[wjob[w]].failedAt = "block"]_vars

C36_Witness ==
    \E i \in 1..Len(windows) :
        /\ FetchedEmpty(i)
        /\ windows[i].marked
        /\ windows[i].result = "ok"
        /\ Checkpoint = windows[i].to
        /\ events = << >>

\* C21: the windows enqueued and not yet taken by a worker never outnumber
\* the workers, and the producer has generated no window beyond the ones the
\* channel has accepted: its position is the block after the last of them
C21_QueueBoundedByWorkers ==
    /\ Len(workerChan) <= config.WorkerCount
    /\ Cardinality(Queued) = Len(workerChan)
    /\ Queued \subseteq DOMAIN windows
    /\ ipc = "produce" =>
          fromBlock = IF windows = << >> THEN startBlock
                      ELSE windows[Len(windows)].to + 1

C21_Witness ==
    /\ ipc = "produce"
    /\ MoreWindows(fromBlock, currentBlock)
    /\ Len(workerChan) = config.WorkerCount
    /\ \E w \in Workers : wpc[w] = "fetch"

----------------------------------------------------------------------------
(* Shutdown: cancel() of the parent context, then Stop()                   *)
(* (cmd/indexer/main.go:105-106)                                           *)

ProducerStep ==
    \/ GetStartBlock
    \/ StartHistorical
    \/ Enqueue
    \/ ProducerReturn

WorkerStep(w) ==
    \/ WorkerTake(w)
    \/ WorkerExit(w)
    \/ WorkerFetch(w)
    \/ WorkerSaveEvents(w)
    \/ WorkerSaveBlock(w)

ListenerStep ==
    \/ ListenerSubscribe
    \/ ListenerReceive

\* Every goroutine that can take a step takes one, and a select whose
\* ctx.Done() case stays ready takes it in the end (the runtime picks among
\* the ready cases at random).  The environment owes nothing: no new block,
\* no subscription error, no cancel() and no Stop() call has to happen.
FairGoroutines ==
    /\ WF_vars(ProducerStep)
    /\ WF_vars(ProducerCancelled)
    /\ \A w \in 1..MaxWorkers : WF_vars(w \in Workers /\ WorkerStep(w))
    /\ WF_vars(ListenerStep)
    /\ WF_vars(ListenerCancelled)
    /\ WF_vars(StopReturn)

\* backfills from the default start block up to the head, with as many
\* blocks to a window as there are workers: one worker has the most windows
\* to take and a channel that fills up, more workers run side by side
ShutdownConfigs ==
    { c \in Configs : /\ c.BatchSize = c.WorkerCount
                      /\ c.BlockConfirmations = 0
                      /\ c.StartFromBlock = 0 }

\* a Start() call on an empty storage, with or without a WebSocket
\* connection, on a chain whose head is within a block of the highest one
\* looked at
InitNearHead(budget) ==
    /\ InitIndexerWith(ShutdownConfigs, { 0 }, budget, BOOLEAN)
    /\ head >= MaxHead - 1

\* cancel(), then idx.Stop()
StopAfterCancel == ctxDone /\ CallStop

\* one Start() call with listener, then cancel() and Stop(), on a chain whose
\* head is within a block of the highest one looked at; goroutines are
\* scheduled fairly; every call returns, and fails only when its context is
\* cancelled
NextShutdown ==
    \/ ProducerStep
    \/ ProducerCancelled
    \/ \E w \in Workers : WorkerStep(w)
    \/ ListenerStep
    \/ ListenerCancelled
    \/ ParentCancel
    \/ NewBlock
    \/ StopAfterCancel
    \/ StopReturn

SpecShutdown ==
    /\ InitNearHead(0)
    /\ [][NextShutdown]_vars
    /\ FairGoroutines

\* C22: a producer blocked on the full channel when the parent context is
\* cancelled enqueues nothing more, leaves the loop only by closing the
\* channel and returning the context's error, and does leave it; once the
\* channel is closed no window is enqueued
C22_BlockedProducerLeavesOnCancel ==
    /\ [][doneWoken => /\ Len(windows') = Len(windows)
                       /\ ipc' # ipc => ipc' = "cancelled" /\ chanClosed']_vars
    /\ doneWoken ~> (ipc = "cancelled" /\ chanClosed)
    /\ [][chanClosed => /\ Len(windows') = Len(windows)
                        /\ Len(workerChan') <= Len(workerChan)]_vars

C22_Witness ==
    /\ ipc = "cancelled"
    /\ chanClosed
    /\ ctxDone
    /\ Len(workerChan) = config.WorkerCount
    /\ MoreWindows(fromBlock, currentBlock)

\* every goroutine the Start() call has started is gone
AllExited ==
    /\ ipc \in { "done", "cancelled", "error" }
    /\ \A w \in Workers : wpc[w] \in { "none", "exited" }
    /\ lpc \in { "none", "exited" }

\* C23: once the parent context is cancelled the producer, every worker and
\* the listener exit, and a Stop() call waiting after the cancellation
\* returns
C23_CancelEndsEveryGoroutine ==
    /\ ctxDone ~> AllExited
    /\ (ctxDone /\ stopPc = "waiting") ~> (stopPc = "returned")

C23_Witness ==
    /\ ctxDone
    /\ stopPc = "returned"
    /\ ipc = "cancelled"
    /\ lpc = "exited"
    /\ \A w \in Workers : wpc[w] = "exited"

\* C24: a listener waiting in its select when the context is cancelled
\* returns, whether or not another log or a subscription error arrives,
\* and saves nothing after it has returned
C24_ListenerLeavesOnCancel ==
    /\ (lpc = "listen" /\ ctxDone) ~> (lpc = "exited")
    /\ [][lpc = "exited" => /\ lpc' = "exited"
                            /\ rtSaved' = rtSaved
                            /\ rtFailed' = rtFailed]_vars

C24_Witness ==
    /\ lpc = "exited"
    /\ ctxDone
    /\ rtSaved # {}
    /\ head = MaxHead

----------------------------------------------------------------------------
(* The listener next to the batch scanner (indexer.go:505-526, 705-744)    *)

NextListener ==
    \/ ProducerStep
    \/ ProducerCancelled
    \/ \E w \in Workers : WorkerStep(w)
    \/ ListenerStep
    \/ ListenerCancelled
    \/ ListenerSubscriptionError
    \/ ParentCancel
    \/ NewBlock

\* one Start() call, with or without a WebSocket connection, on a chain whose
\* head is within a block of the highest one looked at
SpecListener == InitNearHead(MaxFaults) /\ [][NextListener]_vars

\* the end blocks of the windows whose SaveBlock succeeded
MarkedEnds == { windows[i].to : i \in { j \in 1..Len(windows) : windows[j].marked } }

\* C38: no step of the realtime listener writes a checkpoint; a checkpoint
\* is written only by a worker's SaveBlock, for the end block of its
\* window, so the block a restart resumes from comes from the backfill
C38_ListenerWritesNoCheckpoint ==
    /\ [][(ListenerSubscribe \/ ListenerReceive \/ ListenerCancelled
               \/ ListenerSubscriptionError)
            => (blocks' = blocks /\ lastBlocks' = lastBlocks
                                /\ Checkpoint' = Checkpoint)]_vars
    /\ [][(blocks' # blocks \/ lastBlocks' # lastBlocks) =>
            \E w \in Workers : /\ wpc[w] = "block"
                                /\ wpc'[w] # "block"
                                /\ blocks' = blocks \cup { windows[wjob[w]].to }]_vars
    /\ [](blocks \subseteq MarkedEnds /\ Checkpoint \in MarkedEnds \cup { 0 })

C38_Witness ==
    /\ rtSaved # {}
    /\ \E i \in 1..Len(events) : /\ events[i].BlockNumber = MaxHead
                                  /\ EventKey(events[i]) \in rtSaved
    /\ Checkpoint = MaxHead - 1
    /\ ipc = "done"
    /\ lpc = "listen"
    /\ logsCh = << >>

\* a Start() call with both decoders registered or with none, on a storage
\* that is empty or holds the checkpoint an earlier run left
InitAnyRegistry ==
    /\ InitIndexerFor({ NoProcessors, MainProcessors }, ShutdownConfigs, { 0, 1 },
                      MaxFaults, BOOLEAN)
    /\ head >= MaxHead - 1

SpecAnyRegistry == InitAnyRegistry /\ [][NextListener]_vars

\* C37: with no decoder registered every window a worker takes succeeds
\* at once, without fetch, SaveEvents or SaveBlock, the listener returns
\* without subscribing, and the storage stays as it was
C37_NoDecoderNoEffect ==
    /\ [](DOMAIN processors = {} =>
             /\ \A w \in Workers : wpc[w] \in { "none", "idle", "exited" }
             /\ \A i \in 1..Len(windows) :
                   /\ windows[i].result \in { "pending", "ok" }
                   /\ ~windows[i].fetched /\ ~windows[i].saved /\ ~windows[i].marked
             /\ lpc \in { "none", "subscribe", "exited" }
             /\ logsCh = << >> /\ rtSaved = {} /\ rtFailed = {})
    /\ [][DOMAIN processors = {} =>
             /\ UNCHANGED << events, blocks, lastBlocks >>
             /\ Len(workerChan') < Len(workerChan) =>
                   windows'[Head(workerChan)].result = "ok"
             /\ lpc = "subscribe" => lpc' \in { "subscribe", "exited" }]_vars

C37_Witness ==
    /\ DOMAIN processors = {}
    /\ ipc = "done"
    /\ lpc = "exited"
    /\ Len(windows) >= 2
    /\ \A i \in 1..Len(windows) : windows[i].result = "ok"
    /\ \A w \in Workers : wpc[w] = "exited"
    /\ blocks = { 1 }

\* the key of the event a log decodes to
LogKey(log) == << ChainName, log.TxHash, log.Index >>

\* a step in which the subscription reports an error to a listening listener
SubscriptionErrorStep == lpc = "listen" /\ lpc' # "listen" /\ faults' < faults

\* C25: a subscription error ends the listener, which never subscribes
\* again; the step touches neither the batch scanner of the chain nor
\* anything the chains share (context, storage, registry)
C25_SubscriptionErrorEndsListenerOnly ==
    /\ [][SubscriptionErrorStep =>
             /\ lpc' = "exited"
             /\ UNCHANGED << scannerVars, ctxDone, storageVars, registryVars, config >>]_vars
    /\ [][lpc = "exited" => lpc' = "exited"]_vars

C25_Witness ==
    /\ lpc = "exited"
    /\ ~ctxDone
    /\ rtSaved # {}
    /\ \E w \in Workers : wpc[w] = "fetch"

\* C26: a realtime SaveEvents call that fails stores nothing and writes no
\* checkpoint, and the listener stays in its loop with the logs delivered
\* after the failed one still to be received
C26_RealtimeSaveFailureSkipsEvent ==
    [][rtFailed' # rtFailed =>
          /\ events' = events
          /\ blocks' = blocks
          /\ lastBlocks' = lastBlocks
          /\ lpc' = "listen"
          /\ logsCh' = Tail(logsCh)]_vars

C26_Witness ==
    /\ ~ctxDone
    /\ \E failed \in rtFailed, saved \in rtSaved : failed[3] < saved[3]

\* C27: every realtime SaveEvents call is for the log delivered first among
\* those not received yet, carries the one event of that log, and is over
\* when the log is off the channel
C27_RealtimeLogsInDeliveryOrder ==
    [][(rtSaved' # rtSaved \/ rtFailed' # rtFailed) =>
          /\ logsCh # << >>
          /\ logsCh' = Tail(logsCh)
          /\ (rtSaved' \cup rtFailed') \ (rtSaved \cup rtFailed) = { LogKey(Head(logsCh)) }
          /\ Len(events') <= Len(events) + 1]_vars

C27_Witness == Cardinality(rtSaved) = 2 /\ logsCh = << >>

\* indexHistoricalEvents has read the chain head
HeadRead == ipc \in { "produce", "done", "cancelled" }

\* indexHistoricalEvents has returned
ProducerReturned == ipc \in { "done", "cancelled" }

\* C33: indexHistoricalEvents reads the head once, before the first window;
\* the end it computed then stays, no window reaches past it whatever
\* blocks the chain produces later, and a producer that has returned
\* enqueues nothing and reads nothing again
C33_HeadReadOnce ==
    /\ [](windows # << >> => HeadRead)
    /\ [](\A i \in DOMAIN windows : windows[i].to <= currentBlock)
    /\ [][HeadRead => (currentBlock' = currentBlock /\ HeadRead')]_vars
    /\ [][ProducerReturned => (ipc' = ipc /\ Len(windows') = Len(windows))]_vars

C33_Witness ==
    /\ ipc = "done"
    /\ head > currentBlock
    /\ windows # << >>
    /\ \A i \in DOMAIN windows : windows[i].marked
    /\ \A w \in Workers : wpc[w] = "exited"

\* the chain's task has got past getStartBlock
StartBlockResolved == ipc \in { "getHead", "produce", "done", "cancelled" }

\* C28: a listener exists only for a client with a WebSocket connection;
\* a chain whose task has resolved its start block has a listener exactly
\* when its client has one, and the listener is started in the step that
\* hands over to the batch scanner
C28_ListenerIffWebSocket ==
    /\ [](lpc # "none" => wsAvailable)
    /\ [](StartBlockResolved => (lpc # "none" <=> wsAvailable))
    /\ [][lpc = "none" /\ lpc' # "none" => ipc = "getStart" /\ ipc' = "getHead"]_vars

C28_Witness ==
    /\ wsAvailable
    /\ lpc = "listen"
    /\ ipc = "produce"
    /\ logsCh # << >>
    /\ \E w \in Workers : wpc[w] = "fetch"

----------------------------------------------------------------------------
(* Start with several chains (indexer.go:487-526): one goroutine for each  *)
(* chain of the manager, then idx.wg.Wait().  The backfill of a chain is   *)
(* one step here; the context is not cancelled.                            *)

Chains == 1..MaxChains

indexerVars ==
    << pureCallVars, registryVars, storageVars, storeCallVars, listenerVars, stopVars, config, head,
       faults, runVars >>

\* manager.GetClient, client.GetBlockNumber: nil or an error
CallOutcomes == { "ok", "error" }

AfterChainError_AbortAll(pcs, c) == [d \in DOMAIN pcs |-> "error"]

\* indexChain returns an error: the goroutine of the chain prints it and
\* ends
AfterChainError(pcs, c) == [pcs EXCEPT ![c] = "error"]

\* where the goroutine of chain c goes after a call
AfterChainCall(pcs, c, outcome, next) ==
    IF outcome = "ok" THEN [pcs EXCEPT ![c] = next] ELSE AfterChainError(pcs, c)

\* client, err := idx.manager.GetClient(chainName)
ChainGetClient(c) ==
    /\ chainPc[c] = "client"
    /\ \E o \in CallOutcomes : chainPc' = AfterChainCall(chainPc, c, o, "getStart")
    /\ UNCHANGED << indexerVars, startPc, startErr >>

\* getStartBlock, with its chain-head query when there is no checkpoint
ChainGetStartBlock(c) ==
    /\ chainPc[c] = "getStart"
    /\ \E o \in CallOutcomes : chainPc' = AfterChainCall(chainPc, c, o, "getHead")
    /\ UNCHANGED << indexerVars, startPc, startErr >>

\* indexHistoricalEvents: currentBlock, err := client.GetBlockNumber(ctx)
ChainGetHead(c) ==
    /\ chainPc[c] = "getHead"
    /\ \E o \in CallOutcomes : chainPc' = AfterChainCall(chainPc, c, o, "backfill")
    /\ UNCHANGED << indexerVars, startPc, startErr >>

\* the producer loop and the workers of the chain, up to `return nil`
ChainBackfill(c) ==
    /\ chainPc[c] = "backfill"
    /\ chainPc' = [chainPc EXCEPT ![c] = "done"]
    /\ UNCHANGED << indexerVars, startPc, startErr >>

ChainStep(c) ==
    \/ ChainGetClient(c)
    \/ ChainGetStartBlock(c)
    \/ ChainGetHead(c)
    \/ ChainBackfill(c)

\* idx.wg.Wait(); return nil
StartReturns ==
    /\ startPc = "waiting"
    /\ \A c \in Chains : chainPc[c] \in { "done", "error" }
    /\ startPc' = "returned"
    /\ startErr' = "nil"
    /\ UNCHANGED << indexerVars, chainPc >>

\* Start() has started the goroutine of every chain
InitChains ==
    /\ chainPc = [c \in Chains |-> "client"]
    /\ startPc = "waiting"
    /\ startErr = "none"
    /\ processors = MainProcessors
    /\ InitRegistryIdle
    /\ storageKind \in StorageKinds
    /\ InitStorageEmpty
    /\ InitStoreCallsIdle
    /\ InitRunIdle

NextChains ==
    \/ \E c \in Chains : ChainStep(c)
    \/ StartReturns

SpecChains ==
    /\ InitChains
    /\ [][NextChains]_vars
    /\ \A c \in Chains : WF_vars(ChainStep(c))
    /\ WF_vars(StartReturns)

\* C29: a chain whose client lookup or chain-head query fails ends its own
\* task and no other; the other chains go on to the end of their tasks and
\* Start returns nil
C29_ChainFailureIsolated ==
    /\ [][\A c \in Chains :
             (chainPc[c] # "error" /\ chainPc'[c] = "error") =>
                 \A d \in Chains \ { c } : chainPc'[d] = chainPc[d]]_vars
    /\ (\E c \in Chains : chainPc[c] = "error") ~> (startPc = "returned" /\ startErr = "nil")
    /\ [](startPc = "returned" =>
             \A c \in Chains : chainPc[c] \in { "done", "error" })

C29_Witness ==
    /\ startPc = "returned"
    /\ startErr = "nil"
    /\ \E c, d, e \in Chains :
          /\ chainPc[c] = "error"
          /\ chainPc[d] = "done"
          /\ chainPc[e] = "error"
          /\ c # e

----------------------------------------------------------------------------
(* Configurations NewIndexer accepts (indexer.go:469-476): every value of  *)
(* Config, zero workers and a zero batch size included                     *)

DegenerateConfigs ==
    [BatchSize : { 0, 1 }, WorkerCount : { 0, 1 },
     BlockConfirmations : { 0 }, StartFromBlock : { 0, 2 }]

\* a Start() call with any of these configurations, no failure of the
\* environment
InitDegenerate == InitIndexerWith(DegenerateConfigs, { 0 }, 0, { FALSE })

\* no cancellation; every goroutine that can take a step takes one
SpecDegenerate ==
    /\ InitDegenerate
    /\ [][NextLive]_vars
    /\ WF_vars(ProducerStep)
    /\ \A w \in 1..MaxWorkers : WF_vars(w \in Workers /\ WorkerStep(w))

\* C31: with any configuration a backfill run that is not cancelled comes to
\* its end: the producer returns
C31_BackfillTerminates == <>(ipc \in { "done", "error" })

====
